---- MODULE Spec2Model ----
(***************************************************************************)
(* Deterministic chemistry-string utilities of virtual-reaction-lab:       *)
(* the SMILES element tokenizer, the Hill-system formula formatter, the    *)
(* seeded xorshift32 generator and the score deriver.                      *)
(*                                                                         *)
(* A JavaScript string is modelled as the sequence of its UTF-16 code      *)
(* units (what charCodeAt, the regex classes and the default sort see).    *)
(***************************************************************************)
EXTENDS Integers, Sequences, FiniteSets, TLC, Bags

VARIABLES
    original,   \* formatter: the token array as first handed over
    elements,   \* formatter: the token array of the current call (a reordering of original)
    formula,    \* formatter: the string returned by the last call
    fpc,        \* formatter: "ready" before the call on `elements`, "done" after it
    smiles,     \* tokenizer: the string handed to parseElementsFromSmiles
    tokens,     \* tokenizer: the array it returned
    tstarts,    \* tokenizer: the index in smiles at which each returned match began
    tpc,        \* tokenizer: "ready" before the call, "done" after it
    gens,       \* generators: one record per seededRandom closure, in creation order
    scoreSeed,  \* score: the seed argument of scoreFromSeed
    scoreSalt,  \* score: the salt argument
    score,      \* score: the value returned
    spc,        \* score: "ready" before the call, "done" after it
    panelScore, \* score: the value SafetyApplicationsPanel's copy returned
    ppc,        \* score: "ready" before the panel's call, "done" after it
    estArgs,    \* estimator: the arguments of estimateReactionTimeMinutes
    minutes,    \* estimator: the value returned
    tempFactor, \* estimator: its local tempFactor
    pressureFactor, \* estimator: its local pressureFactor
    epc,        \* estimator: "ready" before the call, "done" after it
    rawInput,   \* sanitizer: the string handed to sanitizeSmiles
    sanitized,  \* sanitizer: the string it returned
    zpc,        \* sanitizer: "ready" before the call, "done" after it
    reactants,  \* simulator: the reactant fields (useState<string[]>)
    solutes,    \* simulator: the solute fields
    conditions, \* simulator: temperature, pressure (in tenths of an atm), solvent
    inflight,   \* simulator: the bag of handler runs awaiting PubChem / Cheminfo
    calls,      \* call log: the calls made so far, each with its arguments and result
    text,       \* pipeline: the string the viewer and the panels are given
    parsed,     \* pipeline: the outcome of parseElementsFromSmiles(text)
    formatted,  \* pipeline: the outcome of computeFormula on the parsed tokens
    generator,  \* pipeline: the outcome of seededRandom(text)
    drawn,      \* pipeline: the outcome of the generator's first rand()
    scored,     \* pipeline: the outcome of scoreFromSeed(text, salt)
    imageArgs,  \* image URL: the arguments of getImageUrl
    imageUrl,   \* image URL: the string the handler returned
    ipc,        \* image URL: "ready" before the call, "done" after it
    processEnv, \* FastAPI: process.env, as it is now
    BASE_URL,   \* FastAPI: the module constant, read from process.env on load
    API_KEY,    \* FastAPI: the module constant, read from process.env on load
    apiCalls,   \* FastAPI: the calls of callFastApi so far, the last maybe awaiting
    stored,     \* FastAPI: the rows of cheminfo_results
    reactionDocs, \* saved data: the documents of the table "reactions"
    moleculeDocs, \* saved data: the documents of the table "molecules"
    request,    \* saved data: the request served last, with its outcome
    isSimulating, \* run: useState(false)
    products,   \* run: useState<string[]>([])
    byproducts, \* run: useState<string[]>([])
    simulations, \* run: the bag of handleSimulate runs awaiting their timer
    isDragging, \* viewer: let isDragging = false
    prevXY,     \* viewer: let prevX = 0, prevY = 0
    targetDist, \* viewer: let targetDist = 10, in tenths
    groupRotation, \* viewer: group.rotation.x, .y as changed by the handlers
    handled     \* viewer: the event handled last and what it found and did

fvars == <<original, elements, formula, fpc>>
tvars == <<smiles, tokens, tstarts, tpc>>
gvars == <<gens>>
svars == <<scoreSeed, scoreSalt, score, spc, panelScore, ppc>>
evars == <<estArgs, minutes, tempFactor, pressureFactor, epc>>
zvars == <<rawInput, sanitized, zpc>>
cvars == <<reactants, solutes, conditions, inflight>>
hvars == <<calls>>
ovars == <<text, parsed, formatted, generator, drawn, scored>>
ivars == <<imageArgs, imageUrl, ipc>>
avars == <<processEnv, BASE_URL, API_KEY, apiCalls, stored>>
dvars == <<reactionDocs, moleculeDocs, request>>
rvars == <<isSimulating, products, byproducts, simulations>>
mvars == <<isDragging, prevXY, targetDist, groupRotation, handled>>

vars == <<fvars, tvars, gvars, svars, evars, zvars, cvars, hvars, ovars, ivars, avars, dvars, rvars, mvars>>

\* What each part's actions leave alone: the variables of the other parts.
notFormatter == <<tvars, gvars, svars, evars, zvars, cvars, hvars, ovars, ivars, avars, dvars, rvars, mvars>>
notTokenizer == <<fvars, gvars, svars, evars, zvars, cvars, hvars, ovars, ivars, avars, dvars, rvars, mvars>>
notGenerators == <<fvars, tvars, svars, evars, zvars, cvars, hvars, ovars, ivars, avars, dvars, rvars, mvars>>
notScore == <<fvars, tvars, gvars, evars, zvars, cvars, hvars, ovars, ivars, avars, dvars, rvars, mvars>>
notEstimator == <<fvars, tvars, gvars, svars, zvars, cvars, hvars, ovars, ivars, avars, dvars, rvars, mvars>>
notSanitizer == <<fvars, tvars, gvars, svars, evars, cvars, hvars, ovars, ivars, avars, dvars, rvars, mvars>>
notSimulator == <<fvars, tvars, gvars, svars, evars, zvars, hvars, ovars, ivars, avars, dvars, rvars, mvars>>
notCalls == <<original, formula, fpc, tvars, svars, evars, zvars, cvars, ovars, ivars, avars, dvars, rvars, mvars>>
notPipeline == <<fvars, tvars, gvars, svars, evars, zvars, cvars, hvars, ivars, avars, dvars, rvars, mvars>>
notImage == <<fvars, tvars, gvars, svars, evars, zvars, cvars, hvars, ovars, avars, dvars, rvars, mvars>>
notApi == <<fvars, tvars, gvars, svars, evars, zvars, cvars, hvars, ovars, ivars, dvars, rvars, mvars>>
notDb == <<fvars, tvars, gvars, svars, evars, zvars, cvars, hvars, ovars, ivars, avars, rvars, mvars>>
notRun == <<fvars, tvars, gvars, svars, evars, zvars, cvars, hvars, ovars, ivars, avars, dvars, mvars>>
notViewer == <<fvars, tvars, gvars, svars, evars, zvars, cvars, hvars, ovars, ivars, avars, dvars, rvars>>

(***************************************************************************)
(* Strings                                                                 *)
(***************************************************************************)

UpperLetters ==
    <<"A", "B", "C", "D", "E", "F", "G", "H", "I", "J", "K", "L", "M",
      "N", "O", "P", "Q", "R", "S", "T", "U", "V", "W", "X", "Y", "Z">>

LowerLetters ==
    <<"a", "b", "c", "d", "e", "f", "g", "h", "i", "j", "k", "l", "m",
      "n", "o", "p", "q", "r", "s", "t", "u", "v", "w", "x", "y", "z">>

Digits == <<"0", "1", "2", "3", "4", "5", "6", "7", "8", "9">>

Punctuation ==
    ("(" :> 40) @@ (")" :> 41) @@ ("=" :> 61) @@ ("#" :> 35) @@ ("|" :> 124) @@
    ("." :> 46) @@ ("+" :> 43) @@ ("-" :> 45) @@ ("[" :> 91) @@ ("]" :> 93) @@
    ("@" :> 64) @@ ("/" :> 47) @@ ("*" :> 42) @@ (":" :> 58) @@ ("%" :> 37) @@
    (" " :> 32) @@ ("{" :> 123) @@ ("?" :> 63) @@ ("&" :> 38) @@ ("_" :> 95) @@
    ("!" :> 33) @@ ("~" :> 126) @@ ("," :> 44) @@ (">" :> 62)

\* The UTF-16 code unit of a character the model writes literally.
CodeOf(c) ==
    IF \E i \in 1..26 : UpperLetters[i] = c
    THEN 64 + (CHOOSE i \in 1..26 : UpperLetters[i] = c)
    ELSE IF \E i \in 1..26 : LowerLetters[i] = c
    THEN 96 + (CHOOSE i \in 1..26 : LowerLetters[i] = c)
    ELSE IF \E i \in 1..10 : Digits[i] = c
    THEN 47 + (CHOOSE i \in 1..10 : Digits[i] = c)
    ELSE Punctuation[c]

\* The string whose characters are chars[1], chars[2], ...
Units(chars) == [i \in 1..Len(chars) |-> CodeOf(chars[i])]

EmptyString == <<>>

IsUpper(u) == u >= 65 /\ u <= 90
IsLower(u) == u >= 97 /\ u <= 122
IsDigit(u) == u >= 48 /\ u <= 57

\* a < b in the order of String.prototype.sort's default comparison:
\* lexicographic by code unit, a proper prefix first.
StrLess(a, b) ==
    \E i \in 1..(Len(b)) :
        /\ i <= Len(a) + 1
        /\ \A j \in 1..(i - 1) : a[j] = b[j]
        /\ (i = Len(a) + 1 \/ a[i] < b[i])

\* Number-to-string conversion of a non-negative integer (template literal).
RECURSIVE NumberToString(_)
NumberToString(n) ==
    IF n < 10 THEN <<48 + n>>
    ELSE NumberToString(n \div 10) \o <<48 + (n % 10)>>

\* Array.prototype.join("") of an array of strings.
RECURSIVE JoinStrings(_)
JoinStrings(parts) ==
    IF parts = <<>> THEN EmptyString
    ELSE Head(parts) \o JoinStrings(Tail(parts))

(***************************************************************************)
(* Formula formatter: computeFormula                                       *)
(***************************************************************************)

symC == Units(<<"C">>)
symH == Units(<<"H">>)
symO == Units(<<"O">>)
symCl == Units(<<"C", "l">>)
symNa == Units(<<"N", "a">>)
symBr == Units(<<"B", "r">>)

\* A JS object used as a map: its own keys in insertion order, and their values.
EmptyObject == [keys |-> <<>>, val |-> <<>>]

HasKey(obj, k) == \E i \in 1..Len(obj.keys) : obj.keys[i] = k

ValueOf(obj, k) == obj.val[CHOOSE i \in 1..Len(obj.keys) : obj.keys[i] = k]

\* counts[el] = (counts[el] || 0) + 1
Increment(obj, el) ==
    IF HasKey(obj, el)
    THEN [obj EXCEPT !.val[CHOOSE i \in 1..Len(obj.keys) : obj.keys[i] = el] = @ + 1]
    ELSE [keys |-> Append(obj.keys, el), val |-> Append(obj.val, 0 + 1)]

\* The passes first..last of the loop below, as the passes of the first half
\* followed by those of the second; the first half has counted its last
\* element when the second starts.
RECURSIVE TallyPasses(_, _, _, _)
TallyPasses(els, first, last, counts) ==
    IF first > last THEN counts
    ELSE IF first = last THEN Increment(counts, els[first])
    ELSE LET mid == (first + last) \div 2
             half == TallyPasses(els, first, mid, counts)
         IN  IF HasKey(half, els[mid]) THEN TallyPasses(els, mid + 1, last, half) ELSE half

\* for (const el of elements) counts[el] = (counts[el] || 0) + 1;
Tally(els, counts) == TallyPasses(els, 1, Len(els), counts)

\* delete counts[k]
RECURSIVE DeleteKey(_, _)
DeleteKey(obj, k) ==
    IF obj.keys = <<>> THEN obj
    ELSE LET rest == DeleteKey([keys |-> Tail(obj.keys), val |-> Tail(obj.val)], k)
         IN  IF Head(obj.keys) = k THEN rest
             ELSE [keys |-> <<Head(obj.keys)>> \o rest.keys,
                   val |-> <<Head(obj.val)>> \o rest.val]

\* counts[k] is truthy: the key is present with a non-zero count.
Truthy(obj, k) == HasKey(obj, k) /\ ValueOf(obj, k) # 0

\* Array.prototype.sort() with the default comparison, on distinct strings.
\* (variant: the keys left in insertion order)
SortStrings_unsorted(ks) == ks

RECURSIVE SortStrings(_)
SortStrings(ks) ==
    IF ks = <<>> THEN <<>>
    ELSE LET m == CHOOSE i \in 1..Len(ks) :
                      \A j \in 1..Len(ks) : j = i \/ ks[i] = ks[j] \/ StrLess(ks[i], ks[j])
         IN  <<ks[m]>> \o SortStrings(SubSeq(ks, 1, m - 1) \o SubSeq(ks, m + 1, Len(ks)))

\* The `ordered` array and the `counts` object after the Hill-system block:
\*   if (counts["C"]) { ordered.push("C"); delete counts["C"];
\*     if (counts["H"]) { ordered.push("H"); delete counts["H"]; } }
\* (variant: H is hoisted whether or not C is present)
HillBlock_HAlways(counts) ==
    LET afterC == IF Truthy(counts, symC)
                  THEN [ordered |-> <<symC>>, counts |-> DeleteKey(counts, symC)]
                  ELSE [ordered |-> <<>>, counts |-> counts]
    IN  IF Truthy(afterC.counts, symH)
        THEN [ordered |-> Append(afterC.ordered, symH),
              counts |-> DeleteKey(afterC.counts, symH)]
        ELSE afterC

HillBlock(counts) ==
    IF Truthy(counts, symC)
    THEN LET c1 == DeleteKey(counts, symC)
         IN  IF Truthy(c1, symH)
             THEN [ordered |-> <<symC, symH>>, counts |-> DeleteKey(c1, symH)]
             ELSE [ordered |-> <<symC>>, counts |-> c1]
    ELSE [ordered |-> <<>>, counts |-> counts]

\* `${k}${counts[k] > 1 ? counts[k] : ""}`: a key that was deleted reads as
\* undefined, and undefined > 1 is false.
FormatKey(counts, k) ==
    k \o (IF HasKey(counts, k) /\ ValueOf(counts, k) > 1
          THEN NumberToString(ValueOf(counts, k))
          ELSE EmptyString)

computeFormula(els) ==
    IF Len(els) = 0 THEN EmptyString
    ELSE LET tallied == Tally(els, EmptyObject)
             hill == HillBlock(tallied)
             rest == SortStrings(hill.counts.keys)
             finalKeys == hill.ordered \o rest
         IN  JoinStrings([i \in 1..Len(finalKeys) |-> FormatKey(hill.counts, finalKeys[i])])

(***************************************************************************)
(* Element tokenizer: parseElementsFromSmiles                              *)
(***************************************************************************)

\* s has the two code units of `two` at index i.
LiteralAt(s, i, two) == i + 1 <= Len(s) /\ SubSeq(s, i, i + 1) = two

\* (variant: /[A-Z]|Cl|Br/g, the one-letter alternative tried first and
\* without its optional lowercase letter)
MatchLengthAt_upperOnly(s, i) ==
    IF IsUpper(s[i]) THEN 1 ELSE 0

\* (variant: the pattern with the ignore-case flag, /Cl|Br|[A-Z][a-z]?/gi)
MatchLengthAt_ignoreCase(s, i) ==
    IF IsUpper(s[i]) \/ IsLower(s[i])
    THEN (IF i + 1 <= Len(s) /\ (IsUpper(s[i + 1]) \/ IsLower(s[i + 1])) THEN 2 ELSE 1)
    ELSE 0

\* (variant: /Cl|Br|[A-Z][a-z]*/g, a run of lowercase letters taken)
RECURSIVE LowerRun(_, _)
LowerRun(s, i) ==
    IF i <= Len(s) /\ IsLower(s[i]) THEN 1 + LowerRun(s, i + 1) ELSE 0

MatchLengthAt_lowerRun(s, i) ==
    IF IsUpper(s[i]) THEN 1 + LowerRun(s, i + 1) ELSE 0

\* The pattern /Cl|Br|[A-Z][a-z]?/ tried at index i of s: the length of the
\* match that begins there, 0 when none does. The alternatives are tried in
\* the order written; the optional lowercase letter is taken greedily.
MatchLengthAt(s, i) ==
    IF LiteralAt(s, i, symCl) THEN 2
    ELSE IF LiteralAt(s, i, symBr) THEN 2
    ELSE IF IsUpper(s[i])
    THEN (IF i + 1 <= Len(s) /\ IsLower(s[i + 1]) THEN 2 ELSE 1)
    ELSE 0

\* The matches that begin at the indices i..last, and the index at which the
\* search stands after them: those that begin in the first half of the
\* range, then those of the rest from where the search then stands.
RECURSIVE MatchSpansBetween(_, _, _)
MatchSpansBetween(s, i, last) ==
    IF i > last THEN [spans |-> <<>>, next |-> i]
    ELSE IF i = last
    THEN LET n == MatchLengthAt(s, i)
         IN  IF n = 0 THEN [spans |-> <<>>, next |-> i + 1]
             ELSE [spans |-> <<[start |-> i, len |-> n]>>, next |-> i + n]
    ELSE LET mid == (i + last) \div 2
             before == MatchSpansBetween(s, i, mid)
             after == MatchSpansBetween(s, before.next, last)
         IN  [spans |-> before.spans \o after.spans, next |-> after.next]

\* String.prototype.match with the g flag: the matches from index i on, each
\* search resuming where the previous match ended, one unit further where
\* nothing matches.
MatchSpansFrom(s, i) == MatchSpansBetween(s, i, Len(s)).spans

\* The value null where an array of strings is expected, written as an array
\* that no match produces (a match is never the empty string).
Null == <<EmptyString>>

\* smiles.match(/Cl|Br|[A-Z][a-z]?/g): the array of the matched substrings,
\* or null when nothing matches
StringMatch(str) ==
    LET spans == MatchSpansFrom(str, 1)
    IN  IF spans = <<>> THEN Null
        ELSE [k \in 1..Len(spans) |->
                 SubSeq(str, spans[k].start, spans[k].start + spans[k].len - 1)]

\* (variant: the result of match is returned as it is)
parseElementsFromSmiles_noFallback(str) == StringMatch(str)

\* const tokens = smiles.match(/Cl|Br|[A-Z][a-z]?/g) || []; return tokens;
parseElementsFromSmiles(str) ==
    IF StringMatch(str) = Null THEN <<>> ELSE StringMatch(str)

\* The indices at which the matches of parseElementsFromSmiles begin.
MatchStarts(str) ==
    LET spans == MatchSpansFrom(str, 1)
    IN  [k \in 1..Len(spans) |-> spans[k].start]

(***************************************************************************)
(* JavaScript numbers and 32-bit operators                                 *)
(*                                                                         *)
(* A Number holding an integer n with -2^31 <= n < 2^32 is the pair        *)
(* <<hi, lo>> with n = hi * 65536 + lo, 0 <= lo < 65536 and                *)
(* -32768 <= hi < 65536: the results of ^, << and Math.imul are signed     *)
(* (hi < 32768), the result of >>> is unsigned (hi >= 0).                  *)
(***************************************************************************)

Half == 2 ^ 16

\* ToUint32 and ToInt32 of ECMAScript.
ToUint32(n) == <<n[1] % Half, n[2]>>

ToInt32(n) ==
    LET h == n[1] % Half
    IN  <<IF h >= 32768 THEN h - Half ELSE h, n[2]>>

\* Bitwise exclusive or of two non-negative integers.
RECURSIVE BitXor(_, _)
BitXor(a, b) ==
    IF a = 0 THEN b
    ELSE IF b = 0 THEN a
    ELSE ((a + b) % 2) + (2 * BitXor(a \div 2, b \div 2))

\* a ^ b
JsXor(a, b) ==
    LET x == ToUint32(a)
        y == ToUint32(b)
    IN  ToInt32(<<BitXor(x[1], y[1]), BitXor(x[2], y[2])>>)

\* a << k, for 0 <= k <= 15
JsShl(a, k) ==
    LET x == ToUint32(a)
        low == x[2] * (2 ^ k)
    IN  ToInt32(<<((x[1] * (2 ^ k)) + (low \div Half)) % Half, low % Half>>)

\* a >>> k, for 0 <= k <= 31
JsUShr(a, k) ==
    LET x == ToUint32(a)
    IN  IF k >= 16
        THEN <<0, x[1] \div (2 ^ (k - 16))>>
        ELSE <<x[1] \div (2 ^ k), ((x[1] % (2 ^ k)) * (2 ^ (16 - k))) + (x[2] \div (2 ^ k))>>

\* a >> k, for 0 <= k <= 31: the sign bit is copied in from the left
JsSShr(a, k) ==
    LET x == ToInt32(a)
    IN  IF k >= 16
        THEN LET v == x[1] \div (2 ^ (k - 16)) IN <<v \div Half, v % Half>>
        ELSE <<x[1] \div (2 ^ k), ((x[1] % (2 ^ k)) * (2 ^ (16 - k))) + (x[2] \div (2 ^ k))>>

\* Math.imul(a, b): the low 32 bits of the product, signed. (Written for a
\* multiplier whose halves are below 2^15, as those of 16777619 are, so that
\* every partial product stays below 2^31.)
imul(a, b) ==
    LET x == ToUint32(a)
        y == ToUint32(b)
        p0 == x[2] * y[2]
    IN  ToInt32(<<((p0 \div Half) + ((x[1] * y[2]) % Half) + ((x[2] * y[1]) % Half)) % Half,
                  p0 % Half>>)

\* n % m for a positive integer m < 2^23: the result has the sign of n.
JsRem(n, m) ==
    IF n[1] >= 0
    THEN ((((n[1] * 256) % m) * 256) + n[2]) % m
    ELSE LET r == ((n[1] * Half) + n[2]) % m
         IN  IF r = 0 THEN 0 ELSE r - m

\* An integer 0 <= c < 65536 (a code unit) as a Number.
FromUnit(c) == <<0, c>>

(***************************************************************************)
(* Seeded generator: seededRandom                                          *)
(***************************************************************************)

\* 2166136261 >>> 0, that is 0x811c9dc5
FnvOffsetBasis == <<33052, 40389>>

\* 16777619, that is 0x01000193
FnvPrime == <<256, 403>>

DrawModulus == 1000000

\* The range of the signed 32-bit results.
IsInt32(n) == n[1] >= -32768 /\ n[1] < 32768 /\ n[2] >= 0 /\ n[2] < Half

\* h ^= c; h = Math.imul(h, 16777619);  one pass of the loop body
FoldStep(h, c) == imul(JsXor(h, FromUnit(c)), FnvPrime)

\* The passes i..last of the loop below, as the passes of the first half
\* followed by those of the second (each half leaves an int32 in h before the
\* next one starts).
RECURSIVE FoldPasses(_, _, _, _)
FoldPasses(str, i, last, h) ==
    IF i > last THEN h
    ELSE IF i = last THEN FoldStep(h, str[i])
    ELSE LET mid == (i + last) \div 2
             mixed == FoldPasses(str, i, mid, h)
         IN  IF IsInt32(mixed) THEN FoldPasses(str, mid + 1, last, mixed) ELSE mixed

\* for (let i = 0; i < seed.length; i++) {
\*   h ^= seed.charCodeAt(i); h = Math.imul(h, 16777619); }
FoldFrom(str, i, h) == FoldPasses(str, i, Len(str), h)

\* The closure variable h when seededRandom(seed) returns.
SeedState(seed) == FoldFrom(seed, 1, FnvOffsetBasis)

\* (variant: the middle shift written >> instead of >>>)
XorShift32_arithmetic(h) ==
    LET h1 == JsXor(h, JsShl(h, 13))
        h2 == JsXor(h1, JsSShr(h1, 17))
    IN  JsXor(h2, JsShl(h2, 5))

\* h ^= h << 13; h ^= h >>> 17; h ^= h << 5;
XorShift32(h) ==
    LET h1 == JsXor(h, JsShl(h, 13))
        h2 == JsXor(h1, JsUShr(h1, 17))
    IN  JsXor(h2, JsShl(h2, 5))

\* (variant: the remainder taken of the signed state, without >>> 0)
DrawValue_signed(h) == [num |-> JsRem(h, DrawModulus), den |-> DrawModulus]

\* return ((h >>> 0) % 1_000_000) / 1_000_000;  the quotient num / den
DrawValue(h) == [num |-> JsRem(JsUShr(h, 0), DrawModulus), den |-> DrawModulus]

\* seededRandom(seed): a new closure over its own h; `draws` records what
\* the closure has returned so far.
seededRandom(seed) == [seed |-> seed, h |-> SeedState(seed), draws |-> <<>>]

\* (variant: h is one variable shared by every closure instead of a local
\* of each seededRandom call)
DrawOn_shared(gs, g) ==
    LET h2 == XorShift32(gs[g].h)
    IN  [i \in 1..Len(gs) |->
            IF i = g
            THEN [gs[i] EXCEPT !.h = h2, !.draws = Append(@, DrawValue(h2))]
            ELSE [gs[i] EXCEPT !.h = h2]]

\* A call of the closure gs[g]: its h advances and the draw is returned;
\* no other closure's h is touched.
DrawOn(gs, g) ==
    LET h2 == XorShift32(gs[g].h)
    IN  [gs EXCEPT ![g] = [@ EXCEPT !.h = h2, !.draws = Append(@, DrawValue(h2))]]

(***************************************************************************)
(* Score deriver: scoreFromSeed                                            *)
(***************************************************************************)

ScoreMin == 5

ScoreSpan == 91

\* (variant: the remainder taken of the signed hash, without >>> 0)
MapToScore_signed(h) == ScoreMin + JsRem(h, ScoreSpan)

\* return 5 + (h >>> 0) % 91;
MapToScore(h) == ScoreMin + JsRem(JsUShr(h, 0), ScoreSpan)

\* (variant: the hash advanced by one xorshift draw before it is mapped)
scoreFromSeed_drawn(seed, salt) ==
    MapToScore(XorShift32(FoldFrom(seed \o Units(<<"|">>) \o salt, 1, FnvOffsetBasis)))

\* (variant: h is one module-level variable, which the fold takes up where
\* the generator created last left it)
scoreFromSeed_carried(seed, salt) ==
    MapToScore(FoldFrom(seed \o Units(<<"|">>) \o salt, 1,
                        IF gens = <<>> THEN FnvOffsetBasis ELSE gens[Len(gens)].h))

\* const s = seed + "|" + salt; the fold of seededRandom over s; the mapping
scoreFromSeed(seed, salt) ==
    MapToScore(FoldFrom(seed \o Units(<<"|">>) \o salt, 1, FnvOffsetBasis))

\* The copy in SafetyApplicationsPanel, its loop:
\*   for (let i = 0; i < s.length; i++) {
\*     h ^= s.charCodeAt(i); h = Math.imul(h, 16777619); }
RECURSIVE PanelFoldFrom(_, _, _)
PanelFoldFrom(s, i, h) ==
    IF i > Len(s) THEN h
    ELSE LET mixed == imul(JsXor(h, FromUnit(s[i])), FnvPrime)
         IN  IF IsInt32(mixed) THEN PanelFoldFrom(s, i + 1, mixed) ELSE mixed

\* let h = 2166136261 >>> 0; const s = seed + "|" + salt; the loop;
\* return 5 + (h >>> 0) % 91;
scoreFromSeedPanel(seed, salt) ==
    LET s == seed \o Units(<<"|">>) \o salt
        h == PanelFoldFrom(s, 1, JsUShr(FnvOffsetBasis, 0))
    IN  5 + JsRem(JsUShr(h, 0), 91)

(***************************************************************************)
(* JavaScript numbers that are not 32-bit integers: IEEE 754 doubles       *)
(*                                                                         *)
(* A natural number of any size is the sequence of its digits in base      *)
(* 2^14, lowest first, without leading zero digits (zero is <<>>).         *)
(* A finite double is [neg, m, e] with value (-1)^neg * m * 2^e, where m   *)
(* is odd and below 2^53, or zero with e = 0. Exponents stay far inside    *)
(* the double range for the values the estimator handles, so neither       *)
(* overflow nor subnormal numbers are modelled.                            *)
(***************************************************************************)

Limb == 2 ^ 14

RECURSIVE NatOfInt(_)
NatOfInt(n) == IF n = 0 THEN <<>> ELSE <<n % Limb>> \o NatOfInt(n \div Limb)

\* The integer of a natural below 2^31.
RECURSIVE IntOfNat(_)
IntOfNat(a) == IF a = <<>> THEN 0 ELSE a[1] + (Limb * IntOfNat(Tail(a)))

\* Leading zero digits removed.
RECURSIVE NatTrim(_)
NatTrim(a) ==
    IF a = <<>> THEN <<>>
    ELSE IF a[Len(a)] = 0 THEN NatTrim(SubSeq(a, 1, Len(a) - 1))
    ELSE a

NatDigit(a, i) == IF i <= Len(a) THEN a[i] ELSE 0

RECURSIVE NatAddFrom(_, _, _, _)
NatAddFrom(a, b, i, carry) ==
    IF i > Len(a) /\ i > Len(b)
    THEN (IF carry = 0 THEN <<>> ELSE <<carry>>)
    ELSE LET t == NatDigit(a, i) + NatDigit(b, i) + carry
         IN  <<t % Limb>> \o NatAddFrom(a, b, i + 1, t \div Limb)

NatAdd(a, b) == NatAddFrom(a, b, 1, 0)

\* a - b for a >= b
RECURSIVE NatSubFrom(_, _, _, _)
NatSubFrom(a, b, i, borrow) ==
    IF i > Len(a) THEN <<>>
    ELSE LET t == (NatDigit(a, i) - NatDigit(b, i)) - borrow
         IN  IF t < 0 THEN <<t + Limb>> \o NatSubFrom(a, b, i + 1, 1)
             ELSE <<t>> \o NatSubFrom(a, b, i + 1, 0)

NatSub(a, b) == NatTrim(NatSubFrom(a, b, 1, 0))

\* a < b
NatLess(a, b) ==
    \/ Len(a) < Len(b)
    \/ /\ Len(a) = Len(b)
       /\ \E i \in 1..Len(a) :
            /\ a[i] < b[i]
            /\ \A j \in (i + 1)..Len(a) : a[j] = b[j]

\* a * d for a digit 0 <= d < 2^14
RECURSIVE NatMulDigitFrom(_, _, _, _)
NatMulDigitFrom(a, d, i, carry) ==
    IF i > Len(a) THEN (IF carry = 0 THEN <<>> ELSE <<carry>>)
    ELSE LET t == (a[i] * d) + carry
         IN  <<t % Limb>> \o NatMulDigitFrom(a, d, i + 1, t \div Limb)

NatMulDigit(a, d) == IF d = 0 THEN <<>> ELSE NatMulDigitFrom(a, d, 1, 0)

\* a * b: the rows a * b[i], each one digit further left, added up
RECURSIVE NatMul(_, _)
NatMul(a, b) ==
    IF b = <<>> \/ a = <<>> THEN <<>>
    ELSE LET upper == NatMul(a, Tail(b))
         IN  NatAdd(NatMulDigit(a, Head(b)),
                    IF upper = <<>> THEN <<>> ELSE <<0>> \o upper)

\* floor(a / d) and a mod d for 1 <= d < 2^14, from the highest digit down
RECURSIVE NatDivModFrom(_, _, _, _)
NatDivModFrom(a, d, i, rem) ==
    IF i = 0 THEN [quot |-> <<>>, rem |-> rem]
    ELSE LET t == (rem * Limb) + a[i]
             lower == NatDivModFrom(a, d, i - 1, t % d)
         IN  [quot |-> Append(lower.quot, t \div d), rem |-> lower.rem]

NatDivMod(a, d) ==
    LET r == NatDivModFrom(a, d, Len(a), 0)
    IN  [quot |-> NatTrim(r.quot), rem |-> r.rem]

\* a * 2^k and floor(a / 2^k)
NatShl(a, k) ==
    IF a = <<>> THEN <<>>
    ELSE [i \in 1..(k \div 14) |-> 0] \o NatMulDigit(a, 2 ^ (k % 14))

NatShr(a, k) ==
    IF k \div 14 >= Len(a) THEN <<>>
    ELSE NatDivMod(SubSeq(a, (k \div 14) + 1, Len(a)), 2 ^ (k % 14)).quot

\* The number of binary digits of a.
NatBitLen(a) ==
    IF a = <<>> THEN 0
    ELSE (14 * (Len(a) - 1)) + (CHOOSE n \in 1..14 : 2 ^ (n - 1) <= a[Len(a)] /\ a[Len(a)] < 2 ^ n)

NatIsOdd(a) == a # <<>> /\ a[1] % 2 = 1

\* The number of zero binary digits at the low end of a non-zero a.
NatTrailingZeros(a) ==
    LET i == CHOOSE j \in 1..Len(a) : a[j] # 0 /\ \A l \in 1..(j - 1) : a[l] = 0
    IN  (14 * (i - 1)) + (CHOOSE n \in 0..13 : a[i] % (2 ^ (n + 1)) = 2 ^ n)

FZero == [neg |-> FALSE, m |-> <<>>, e |-> 0]

\* The double with the exact value (-1)^neg * n * 2^e, for n of at most 53 bits.
FCanon(neg, n, e) ==
    IF n = <<>> THEN FZero
    ELSE LET z == NatTrailingZeros(n)
         IN  [neg |-> neg, m |-> NatShr(n, z), e |-> e + z]

\* Round to nearest, ties to even: the double nearest (-1)^neg * n * 2^e.
FRound(neg, n, e) ==
    IF NatBitLen(n) <= 53 THEN FCanon(neg, n, e)
    ELSE LET k == NatBitLen(n) - 53
             q == NatShr(n, k)
             rem == NatSub(n, NatShl(q, k))
             half == NatShl(<<1>>, k - 1)
             up == NatLess(half, rem) \/ (rem = half /\ NatIsOdd(q))
         IN  FCanon(neg, IF up THEN NatAdd(q, <<1>>) ELSE q, e + k)

\* An integer -2^31 < n < 2^31 as a double.
FromInt(n) == IF n < 0 THEN FCanon(TRUE, NatOfInt(0 - n), 0) ELSE FCanon(FALSE, NatOfInt(n), 0)

FNeg(x) == IF x.m = <<>> THEN x ELSE [x EXCEPT !.neg = ~x.neg]

\* x * y
FMul(x, y) == FRound(x.neg # y.neg, NatMul(x.m, y.m), x.e + y.e)

\* x + y and x - y: the exact sum on the smaller exponent, then rounded
FAdd(x, y) ==
    LET e == IF x.e < y.e THEN x.e ELSE y.e
        a == NatShl(x.m, x.e - e)
        b == NatShl(y.m, y.e - e)
    IN  IF x.neg = y.neg THEN FRound(x.neg, NatAdd(a, b), e)
        ELSE IF NatLess(a, b) THEN FRound(y.neg, NatSub(b, a), e)
        ELSE FRound(x.neg, NatSub(a, b), e)

FSub(x, y) == FAdd(x, FNeg(y))

\* x / d for an integer 1 <= d < 2^14: the quotient to 56 or more binary
\* digits, with one more digit that is 1 when the division left a remainder
FDivInt(x, d) ==
    IF x.m = <<>> THEN FZero
    ELSE LET k == 70 - NatBitLen(x.m)
             dm == NatDivMod(NatShl(x.m, k), d)
             n == NatAdd(NatShl(dm.quot, 1), IF dm.rem = 0 THEN <<>> ELSE <<1>>)
         IN  FRound(x.neg, n, (x.e - k) - 1)

\* x < y
FLess(x, y) ==
    LET e == IF x.e < y.e THEN x.e ELSE y.e
        a == NatShl(x.m, x.e - e)
        b == NatShl(y.m, y.e - e)
    IN  IF x.neg /\ ~y.neg THEN a # <<>> \/ b # <<>>
        ELSE IF ~x.neg /\ y.neg THEN FALSE
        ELSE IF x.neg THEN NatLess(b, a)
        ELSE NatLess(a, b)

\* Math.max(x, y)
MathMax(x, y) == IF FLess(x, y) THEN y ELSE x

\* Math.round(x) for a double 0 <= x < 2^31 - 1, as an integer: floor(x + 1/2) exactly
MathRound(x) ==
    IF x.e >= 0 THEN IntOfNat(NatShl(x.m, x.e))
    ELSE IntOfNat(NatShr(NatAdd(x.m, NatShl(<<1>>, (0 - x.e) - 1)), 0 - x.e))

\* The double a decimal literal with the value p / q denotes (q a power of ten).
Literal(p, q) == FDivInt(FromInt(p), q)

(***************************************************************************)
(* Reaction-time estimator: estimateReactionTimeMinutes                    *)
(***************************************************************************)

\* A Number the estimator returns: NaN, or the integer val.
NaN == [nan |-> TRUE, val |-> 0]

Num(n) == [nan |-> FALSE, val |-> n]

\* const solventFactor: Record<string, number> = { water: 1.0, ... };
\* each value as the hundredths its literal denotes
solventFactor ==
    [water |-> 100, ethanol |-> 90, methanol |-> 85, isopropanol |-> 95,
     acetone |-> 80, acetonitrile |-> 75, dmso |-> 110, dmf |-> 115,
     thf |-> 90, dichloromethane |-> 70, chloroform |-> 80, benzene |-> 105,
     toluene |-> 100, xylene |-> 105, dioxane |-> 95, hexane |-> 110,
     heptane |-> 115, ether |-> 85]

\* The properties an object literal inherits from Object.prototype.
ObjectPrototypeKeys ==
    {"constructor", "toString", "toLocaleString", "valueOf", "hasOwnProperty",
     "isPrototypeOf", "propertyIsEnumerable", "__proto__"}

\* What solventFactor[solventKey] evaluates to: the number of an own key,
\* the function or object of an inherited key, undefined otherwise.
PropertyKind(solventKey) ==
    IF solventKey \in DOMAIN solventFactor THEN "number"
    ELSE IF solventKey \in ObjectPrototypeKeys THEN "object"
    ELSE "undefined"

\* solventFactor[solventKey] ?? 1.0, when that is a number: ?? replaces
\* only undefined and null
SolventMultiplier(solventKey) ==
    IF PropertyKind(solventKey) = "number"
    THEN Literal(solventFactor[solventKey], 100)
    ELSE Literal(10, 10)

\* (variant: the slope taken over 150 K instead of 300 K)
TempFactor_steeper(temperatureK) ==
    MathMax(Literal(4, 10),
            FSub(Literal(16, 10), FDivInt(FSub(temperatureK, FromInt(273)), 150)))

\* Math.max(0.4, 1.6 - (temperatureK - 273) / 300)
TempFactor(temperatureK) ==
    MathMax(Literal(4, 10),
            FSub(Literal(16, 10), FDivInt(FSub(temperatureK, FromInt(273)), 300)))

\* (variant: the slope 0.06 per atm instead of 0.05)
PressureFactor_steeper(pressureAtm) ==
    MathMax(Literal(7, 10),
            FSub(Literal(12, 10), FMul(FSub(pressureAtm, FromInt(1)), Literal(6, 100))))

\* Math.max(0.7, 1.2 - (pressureAtm - 1) * 0.05)
PressureFactor(pressureAtm) ==
    MathMax(Literal(7, 10),
            FSub(Literal(12, 10), FMul(FSub(pressureAtm, FromInt(1)), Literal(5, 100))))

\* let base = 30 + reactantsCount * 20 + solutesCount * 10;
\* base *= solventFactor[solventKey] ?? 1.0;
\* base * tempFactor * pressureFactor, before it is rounded
EstimateProduct(reactantsCount, solutesCount, solventKey, temperatureK, pressureAtm) ==
    LET base0 == FromInt(30 + (reactantsCount * 20) + (solutesCount * 10))
        base == FMul(base0, SolventMultiplier(solventKey))
    IN  FMul(FMul(base, TempFactor(temperatureK)), PressureFactor(pressureAtm))

\* Math.max(5, Math.round(base * tempFactor * pressureFactor)); a base
\* multiplied by a function or an object is NaN, and NaN stays NaN through
\* Math.round and Math.max
estimateReactionTimeMinutes(reactantsCount, solutesCount, solventKey, temperatureK, pressureAtm) ==
    IF PropertyKind(solventKey) = "object" THEN NaN
    ELSE LET rounded == MathRound(EstimateProduct(reactantsCount, solutesCount, solventKey,
                                                  temperatureK, pressureAtm))
         IN  Num(IF rounded > 5 THEN rounded ELSE 5)

(***************************************************************************)
(* Input sanitizer: sanitizeSmiles                                         *)
(***************************************************************************)

\* The class [A-Za-z0-9@\+\-\[\]\(\)=#\\\/\.\*:] on one code unit.
IsAllowedUnit(u) ==
    \/ IsUpper(u) \/ IsLower(u) \/ IsDigit(u)
    \/ u \in {64, 43, 45, 91, 93, 40, 41, 61, 35, 92, 47, 46, 42, 58}

\* (variant: the string cut to 200 units before the filter instead of after)
sanitizeSmiles_cutFirst(input) ==
    SelectSeq(SubSeq(input, 1, IF Len(input) < 200 THEN Len(input) ELSE 200), IsAllowedUnit)

\* const cleaned = (input.match(allowed) || []).join("");
\* return cleaned.slice(0, 200);
sanitizeSmiles(input) ==
    LET cleaned == SelectSeq(input, IsAllowedUnit)
    IN  SubSeq(cleaned, 1, IF Len(cleaned) < 200 THEN Len(cleaned) ELSE 200)

(***************************************************************************)
(* Formatter harness: a caller formats a token array, and may format the   *)
(* same tokens again in another order.                                     *)
(***************************************************************************)

MaxElements == 3

ElementSymbols == {symC, symH, symO, symCl, symNa, symBr}

RECURSIVE SeqsUpTo(_, _)
SeqsUpTo(S, n) ==
    IF n = 0 THEN {<<>>}
    ELSE LET shorter == SeqsUpTo(S, n - 1)
         IN  shorter \cup {Append(s, x) : s \in {t \in shorter : Len(t) = n - 1}, x \in S}

\* ethanol's atoms as the spec's example lists them
EthanolAtoms == <<symC, symC, symO, symH, symH, symH, symH, symH, symH>>

ElementInputs == SeqsUpTo(ElementSymbols, MaxElements) \cup {EthanolAtoms}

FormulaStart ==
    /\ original \in ElementInputs
    /\ elements = original
    /\ formula = EmptyString
    /\ fpc = "ready"

FormulaIdle ==
    /\ original = <<>>
    /\ elements = <<>>
    /\ formula = EmptyString
    /\ fpc = "idle"

\* const formula = computeFormula(elements);  the array is only read
CallComputeFormula ==
    /\ fpc = "ready"
    /\ formula' = computeFormula(elements)
    /\ fpc' = "done"
    /\ UNCHANGED <<original, elements, notFormatter>>

\* The caller presents the same tokens with two of them exchanged.
ReorderElements ==
    \E i, j \in 1..Len(elements) :
        /\ i < j
        /\ elements[i] # elements[j]
        /\ elements' = [elements EXCEPT ![i] = elements[j], ![j] = elements[i]]
        /\ formula' = EmptyString
        /\ fpc' = "ready"
        /\ UNCHANGED <<original, notFormatter>>

(***************************************************************************)
(* Tokenizer harness: a caller tokenizes a string.                         *)
(***************************************************************************)

MaxSmilesLen == 4

\* The code units the bounded inputs are written with: letters that begin
\* and end the halogen symbols, an aromatic atom, a ring-closure digit.
SmilesAlphabet == {CodeOf(c) : c \in {"C", "l", "B", "r", "N", "c", "1"}}

smilesToluene == Units(<<"C", "c", "1", "c", "c", "c", "c", "c", "1">>)
smilesBenzene == Units(<<"c", "1", "c", "c", "c", "c", "c", "1">>)
smilesDichloromethane == Units(<<"C", "l", "C", "C", "l">>)
smilesEthanol == Units(<<"C", "C", "O">>)

\* Strings the application itself tokenizes (SOLVENT_SMILES, COMMON_REACTANTS,
\* COMMON_SOLUTES) and strings without any letter.
LibrarySmiles ==
    { smilesEthanol, smilesDichloromethane, smilesBenzene, smilesToluene,
      Units(<<"C", "l", "C", "(", "C", "l", ")", "C", "l">>),
      Units(<<"N", "c", "1", "c", "c", "c", "c", "c", "1">>),
      Units(<<"C", "S", "(", "=", "O", ")", "C">>),
      Units(<<"[", "N", "a", "+", "]", ".", "[", "C", "l", "-", "]">>),
      Units(<<"B", "r">>),
      Units(<<"1", "2", "3", "(", ")", "=">>) }

SmilesInputs == SeqsUpTo(SmilesAlphabet, MaxSmilesLen) \cup LibrarySmiles

TokenizerStart ==
    /\ smiles \in SmilesInputs
    /\ tokens = <<>>
    /\ tstarts = <<>>
    /\ tpc = "ready"

TokenizerIdle ==
    /\ smiles = EmptyString
    /\ tokens = <<>>
    /\ tstarts = <<>>
    /\ tpc = "idle"

\* const elements = parseElementsFromSmiles(smiles);
CallParseElements ==
    /\ tpc = "ready"
    /\ tokens' = parseElementsFromSmiles(smiles)
    /\ tstarts' = MatchStarts(smiles)
    /\ tpc' = "done"
    /\ UNCHANGED <<smiles, notTokenizer>>

(***************************************************************************)
(* Generators: closures are created from seeds and called in any order.    *)
(***************************************************************************)

MaxGenerators == 3

MaxDraws == 2

\* Seeds: the viewer seeds its generator with the SMILES string it shows.
PrngSeeds == {EmptyString, Units(<<"O">>), smilesEthanol}

GeneratorsStart == gens = <<>>

GeneratorsIdle == gens = <<>>

\* const rand = seededRandom(seed);
CreateGenerator ==
    \E seed \in PrngSeeds :
        /\ Len(gens) < MaxGenerators
        /\ gens' = Append(gens, seededRandom(seed))
        /\ UNCHANGED notGenerators

\* rand()
Draw ==
    \E g \in 1..Len(gens) :
        /\ Len(gens[g].draws) < MaxDraws
        /\ gens' = DrawOn(gens, g)
        /\ UNCHANGED notGenerators

(***************************************************************************)
(* Score harness: a caller derives a score from a seed and a salt.         *)
(***************************************************************************)

MaxSeedLen == 2

ScoreAlphabet == {CodeOf(c) : c \in {"C", "O", "."}}

\* The salts the panels pass, and the product lists the simulation yields.
PanelSalts ==
    { Units(<<"t", "o", "x">>), Units(<<"f", "l", "a", "m", "m">>),
      Units(<<"r", "e", "a", "c", "t">>), Units(<<"e", "n", "v">>),
      Units(<<"e", "x", "p">>), Units(<<"c", "o", "r", "r">>),
      Units(<<"f", "d", "a">>), Units(<<"r", "e", "a", "c", "h">>),
      Units(<<"o", "s", "h", "a">>) }

PanelSeeds ==
    { Units(<<"C", "H", "3", "C", "H", "O", ".", "H", "2", "O">>),
      Units(<<"C", "C", "O", ".", "C", "O", "2">>) }

ScoreSeeds == SeqsUpTo(ScoreAlphabet, MaxSeedLen) \cup PanelSeeds

ScoreSalts == SeqsUpTo(ScoreAlphabet, MaxSeedLen) \cup PanelSalts

ScoreStart ==
    /\ scoreSeed \in ScoreSeeds
    /\ scoreSalt \in ScoreSalts
    /\ score = 0
    /\ spc = "ready"
    /\ panelScore = 0
    /\ ppc = "ready"

ScoreIdle ==
    /\ scoreSeed = EmptyString
    /\ scoreSalt = EmptyString
    /\ score = 0
    /\ spc = "idle"
    /\ panelScore = 0
    /\ ppc = "idle"

\* const val = scoreFromSeed(seed, salt);
CallScoreFromSeed ==
    /\ spc = "ready"
    /\ score' = scoreFromSeed(scoreSeed, scoreSalt)
    /\ spc' = "done"
    /\ UNCHANGED <<scoreSeed, scoreSalt, panelScore, ppc, notScore>>

\* SafetyApplicationsPanel: const val = scoreFromSeed(seed, salt);
CallPanelScoreFromSeed ==
    /\ ppc = "ready"
    /\ panelScore' = scoreFromSeedPanel(scoreSeed, scoreSalt)
    /\ ppc' = "done"
    /\ UNCHANGED <<scoreSeed, scoreSalt, score, spc, notScore>>

(***************************************************************************)
(* Estimator harness: a caller estimates the time of one reaction.         *)
(***************************************************************************)

MaxCount == 2

\* Solvent keys: those of the table (SOLVENT_OPTIONS offers exactly these)
\* and strings that are not keys of it.
SolventKeys == (DOMAIN solventFactor) \cup {"glycerol", "constructor"}

\* Temperatures in kelvin: the ends of the slider, its default, and values
\* off the slider.
Temperatures == {273, 298, 303, 573, 633, 634, 700}

\* Pressures in tenths of an atmosphere (the slider's step).
PressureTenths == {1, 10, 30, 100, 109, 110, 120}

EstimatorStart ==
    /\ estArgs \in [reactantsCount : 0..MaxCount, solutesCount : 0..MaxCount,
                    solventKey : SolventKeys, temperatureK : Temperatures,
                    pressureTenths : PressureTenths]
    /\ minutes = Num(0)
    /\ tempFactor = FZero
    /\ pressureFactor = FZero
    /\ epc = "ready"

EstimatorIdle ==
    /\ estArgs = [reactantsCount |-> 0, solutesCount |-> 0, solventKey |-> "water",
                  temperatureK |-> 298, pressureTenths |-> 10]
    /\ minutes = Num(0)
    /\ tempFactor = FZero
    /\ pressureFactor = FZero
    /\ epc = "idle"

\* The doubles passed for the kelvin and the tenths of an atmosphere.
TemperatureOf(args) == FromInt(args.temperatureK)

PressureOf(args) == Literal(args.pressureTenths, 10)

\* const estimatedMinutes = estimateReactionTimeMinutes(...); the two
\* factors are the function's locals of those names
CallEstimate ==
    /\ epc = "ready"
    /\ minutes' = estimateReactionTimeMinutes(estArgs.reactantsCount, estArgs.solutesCount,
                      estArgs.solventKey, TemperatureOf(estArgs), PressureOf(estArgs))
    /\ tempFactor' = TempFactor(TemperatureOf(estArgs))
    /\ pressureFactor' = PressureFactor(PressureOf(estArgs))
    /\ epc' = "done"
    /\ UNCHANGED <<estArgs, notEstimator>>

(***************************************************************************)
(* Sanitizer harness: a caller sanitizes the text of an input field.       *)
(***************************************************************************)

MaxInputLen == 3

\* Code units of the bounded inputs: C, 1, the backslash and the colon are
\* allowed; the space, the percent sign, the brace and e-acute are not.
InputAlphabet == {67, 49, 92, 58, 32, 37, 123, 233}

\* A text of n units that has a space at every position divisible by gap
\* and the letter C everywhere else.
SpacedText(n, gap) == [i \in 1..n |-> IF i % gap = 0 THEN 32 ELSE 67]

\* Texts around the limit of 200: 200 and 201 allowed units, more than 200
\* allowed units among others, and fewer than 200 allowed units in a text
\* longer than 200.
LongInputs ==
    { SpacedText(200, 201), SpacedText(201, 202), SpacedText(250, 10),
      SpacedText(220, 3), SpacedText(230, 8) }

SanitizerInputs == SeqsUpTo(InputAlphabet, MaxInputLen) \cup LongInputs

SanitizerStart ==
    /\ rawInput \in SanitizerInputs
    /\ sanitized = EmptyString
    /\ zpc = "ready"

SanitizerIdle ==
    /\ rawInput = EmptyString
    /\ sanitized = EmptyString
    /\ zpc = "idle"

\* next[idx] = sanitizeSmiles(value);
CallSanitize ==
    /\ zpc = "ready"
    /\ sanitized' = sanitizeSmiles(rawInput)
    /\ zpc' = "done"
    /\ UNCHANGED <<rawInput, notSanitizer>>

(***************************************************************************)
(* ReactionSimulator component: the input fields, the conditions, the      *)
(* estimate shown, and the requests to PubChem and to the cheminformatics  *)
(* service.                                                                *)
(***************************************************************************)

\* White space as String.prototype.trim removes it (the units in use here).
IsWhiteSpace(u) == u \in {9, 10, 11, 12, 13, 32, 160}

\* r.trim()
Trim(s) ==
    LET kept == {i \in 1..Len(s) : ~IsWhiteSpace(s[i])}
    IN  IF kept = {} THEN EmptyString
        ELSE SubSeq(s, CHOOSE i \in kept : \A j \in 1..(i - 1) : IsWhiteSpace(s[j]),
                       CHOOSE i \in kept : \A j \in (i + 1)..Len(s) : IsWhiteSpace(s[j]))

\* reactants.filter((r) => r.trim()).length
NonBlankCount(list) == Len(SelectSeq(list, LAMBDA r : Trim(r) # EmptyString))

\* reactants.filter((_, i) => i !== idx), idx counted from 1 here
WithoutIndex(list, idx) ==
    [i \in 1..(Len(list) - 1) |-> IF i < idx THEN list[i] ELSE list[i + 1]]

\* The duration text with the hour form above sixty minutes only.
DurationText_strict(m) ==
    IF ~m.nan /\ m.val > 60
    THEN NumberToString(m.val \div 60) \o Units(<<"h", " ">>)
             \o NumberToString(m.val % 60) \o Units(<<"m">>)
    ELSE (IF m.nan THEN Units(<<"N", "a", "N">>) ELSE NumberToString(m.val))
             \o Units(<<" ", "m", "i", "n">>)

\* estimatedMinutes >= 60 ? `${Math.floor(estimatedMinutes / 60)}h
\* ${estimatedMinutes % 60}m` : `${estimatedMinutes} min`; a comparison with
\* NaN is false
DurationText(m) ==
    IF ~m.nan /\ m.val >= 60
    THEN NumberToString(m.val \div 60) \o Units(<<"h", " ">>)
             \o NumberToString(m.val % 60) \o Units(<<"m">>)
    ELSE (IF m.nan THEN Units(<<"N", "a", "N">>) ELSE NumberToString(m.val))
             \o Units(<<" ", "m", "i", "n">>)

\* The lists of a request with their blank entries left out.
CanonicalLists_dropBlank(list, answers) ==
    {SelectSeq(list, LAMBDA r : Trim(r) # EmptyString)}

\* The lists a request can put in place of those it was started with: a
\* blank entry stays; any other entry becomes the canonicalSmiles of the
\* answer, or stays when the answer has none (res?.canonicalSmiles || r).
\* The answer is the service's: any non-empty string of answers.
CanonicalLists(list, answers) ==
    {next \in [1..Len(list) -> {list[i] : i \in 1..Len(list)} \cup answers] :
        \A i \in 1..Len(list) :
            IF Trim(list[i]) = EmptyString THEN next[i] = list[i]
            ELSE next[i] = list[i] \/ next[i] \in answers}

\* What a handler awaiting its answers closed over: the lists of the render
\* it was started in.
Snapshot == [reactants |-> reactants, solutes |-> solutes]

(***************************************************************************)
(* Simulator harness: a user edits the fields and the conditions and asks  *)
(* the two services to validate or normalize them.                         *)
(***************************************************************************)

\* The most input fields, reactants and solutes together, and the most
\* requests awaiting their answer.
MaxFields == 2

MaxInFlight == 1

\* Texts typed into a field: nothing, spaces, and ethanol and hydrochloric
\* acid with a space typed inside.
TypedReactants == {EmptyString, <<32, 32>>, <<67, 32, 67, 79>>}

TypedSolutes == {EmptyString, <<32, 32>>, <<67, 32, 108>>}

\* Library entries offered: COMMON_REACTANTS' methane, COMMON_SOLUTES'
\* hydrochloric acid.
smilesMethane == Units(<<"C">>)

smilesHydrochloricAcid == Units(<<"C", "l">>)

ReactantLibrary == {smilesMethane}

SoluteLibrary == {smilesHydrochloricAcid}

\* A canonical SMILES a service answers with: one with a ring-closure number
\* above 9, which SMILES writes with a % sign.
smilesRingClosure == Units(<<"C", "%", "1", "0">>)

ServiceAnswers == {smilesRingClosure}

\* Solvents chosen, of SOLVENT_OPTIONS; slider stops for the temperature
\* (kelvin) and the pressure (tenths of an atmosphere).
SolventChoices == {"water", "dichloromethane"}

TemperatureStops == {273, 298, 573}

PressureStops == {10, 100}

SimulatorStart ==
    /\ reactants = <<smilesEthanol>>
    /\ solutes = <<>>
    /\ conditions = [temperature |-> 298, pressure |-> 10, solvent |-> "water"]
    /\ inflight = EmptyBag

SimulatorIdle == SimulatorStart

FieldCount == Len(reactants) + Len(solutes)

\* The conditions a render can see: the initial ones and those chosen.
ShownConditions ==
    [temperature : {298} \cup TemperatureStops, pressure : {10} \cup PressureStops,
     solvent : {"water"} \cup SolventChoices]

\* estimateReactionTimeMinutes(...) of a render, tabulated for the counts and
\* conditions of the model.
EstimateTable ==
    {[reactantsCount |-> r, solutesCount |-> s, conditions |-> c,
      minutes |-> estimateReactionTimeMinutes(r, s, c.solvent, FromInt(c.temperature),
                                              Literal(c.pressure, 10))] :
        r \in 0..MaxFields, s \in 0..MaxFields, c \in ShownConditions}

\* The table's entry for the arguments of a call.
TabulatedEstimate(reactantsCount, solutesCount, shown) ==
    LET row == CHOOSE row \in EstimateTable :
                   /\ row.reactantsCount = reactantsCount
                   /\ row.solutesCount = solutesCount
                   /\ row.conditions = shown
    IN  row.minutes

\* const estimatedMinutes = estimateReactionTimeMinutes(
\*   reactants.filter((r) => r.trim()).length, ..., conditions.pressure),
\* of the render of the current state
estimatedMinutes ==
    TabulatedEstimate(NonBlankCount(reactants), NonBlankCount(solutes), conditions)

\* const estimateText = ...
estimateText == DurationText(estimatedMinutes)

\* onChange={(e) => updateReactant(idx, e.target.value)}
UpdateReactant ==
    /\ \E idx \in 1..Len(reactants), value \in TypedReactants :
           reactants' = [reactants EXCEPT ![idx] = sanitizeSmiles(value)]
    /\ UNCHANGED <<solutes, conditions, inflight, notSimulator>>

\* const addReactant = () => setReactants([...reactants, ""]);
AddReactant ==
    /\ FieldCount < MaxFields
    /\ reactants' = Append(reactants, EmptyString)
    /\ UNCHANGED <<solutes, conditions, inflight, notSimulator>>

\* removeReactant; its button is disabled={reactants.length === 1}
RemoveReactant ==
    /\ Len(reactants) # 1
    /\ \E idx \in 1..Len(reactants) : reactants' = WithoutIndex(reactants, idx)
    /\ UNCHANGED <<solutes, conditions, inflight, notSimulator>>

\* setReactants((r) => [...r, smiles]);
AddReactantFromLibrary ==
    /\ FieldCount < MaxFields
    /\ \E entry \in ReactantLibrary : reactants' = Append(reactants, entry)
    /\ UNCHANGED <<solutes, conditions, inflight, notSimulator>>

UpdateSolute ==
    /\ \E idx \in 1..Len(solutes), value \in TypedSolutes :
           solutes' = [solutes EXCEPT ![idx] = sanitizeSmiles(value)]
    /\ UNCHANGED <<reactants, conditions, inflight, notSimulator>>

AddSolute ==
    /\ FieldCount < MaxFields
    /\ solutes' = Append(solutes, EmptyString)
    /\ UNCHANGED <<reactants, conditions, inflight, notSimulator>>

RemoveSolute ==
    /\ \E idx \in 1..Len(solutes) : solutes' = WithoutIndex(solutes, idx)
    /\ UNCHANGED <<reactants, conditions, inflight, notSimulator>>

AddSoluteFromLibrary ==
    /\ FieldCount < MaxFields
    /\ \E entry \in SoluteLibrary : solutes' = Append(solutes, entry)
    /\ UNCHANGED <<reactants, conditions, inflight, notSimulator>>

\* setConditions((prev) => ({ ...prev, solvent: value }))
ChangeSolvent ==
    /\ \E value \in SolventChoices : conditions' = [conditions EXCEPT !.solvent = value]
    /\ UNCHANGED <<reactants, solutes, inflight, notSimulator>>

ChangeTemperature ==
    /\ \E value \in TemperatureStops : conditions' = [conditions EXCEPT !.temperature = value]
    /\ UNCHANGED <<reactants, solutes, inflight, notSimulator>>

ChangePressure ==
    /\ \E value \in PressureStops : conditions' = [conditions EXCEPT !.pressure = value]
    /\ UNCHANGED <<reactants, solutes, inflight, notSimulator>>

\* handleValidateViaPubChem up to its first await: the requests go out for
\* the lists of this render. The button stays enabled meanwhile.
ClickValidateViaPubChem ==
    /\ BagCardinality(inflight) < MaxInFlight
    /\ inflight' = inflight (+) SetToBag({Snapshot})
    /\ UNCHANGED <<reactants, solutes, conditions, notSimulator>>

\* handleNormalizeViaCheminfo up to its first await
ClickNormalizeViaCheminfo ==
    /\ BagCardinality(inflight) < MaxInFlight
    /\ inflight' = inflight (+) SetToBag({Snapshot})
    /\ UNCHANGED <<reactants, solutes, conditions, notSimulator>>

\* Either handler after its awaits: setReactants(nextReactants);
\* setSolutes(nextSolutes); (setReactants(reactantResults);
\* setSolutes(soluteResults);)
AnswersArrive ==
    /\ \E req \in BagToSet(inflight) :
           /\ reactants' \in CanonicalLists(req.reactants, ServiceAnswers)
           /\ solutes' \in CanonicalLists(req.solutes, ServiceAnswers)
           /\ inflight' = inflight (-) SetToBag({req})
    /\ UNCHANGED <<conditions, notSimulator>>

\* Either handler's catch (e) { toast.error(...) }: a request was rejected
RequestFails ==
    /\ \E req \in BagToSet(inflight) : inflight' = inflight (-) SetToBag({req})
    /\ UNCHANGED <<reactants, solutes, conditions, notSimulator>>

(***************************************************************************)
(* ReactionSimulator component: running a simulation                       *)
(***************************************************************************)

\* str.includes(sub)
Includes(str, sub) ==
    \E i \in 0..(Len(str) - Len(sub)) : SubSeq(str, i + 1, i + Len(sub)) = sub

\* list.join(".")
JoinWithDot(list) ==
    JoinStrings([i \in 1..Len(list) |-> IF i = 1 THEN list[i] ELSE <<46>> \o list[i]])

\* conditions.solvent as a string: a key of SOLVENT_OPTIONS
SolventText(key) ==
    IF key = "water" THEN Units(<<"w", "a", "t", "e", "r">>)
    ELSE IF key = "dichloromethane" THEN Units(<<"d", "i", "c", "h", "l", "o", "r", "o", "m", "e", "t", "h", "a", "n", "e">>)
    ELSE Units(<<"e", "t", "h", "a", "n", "o", "l">>)

\* What handleSimulate closes over: reactants, solutes and conditions of the
\* render in which Run was clicked.
RunSnapshot ==
    [reactants |-> reactants, solutes |-> solutes, solvent |-> conditions.solvent]

\* The continuation reading the state as it is when the delay has elapsed.
ClosedOver_current(run) == RunSnapshot

\* What the code after the await reads: the constants of its closure.
ClosedOver(run) == run

\* const seedBase = reactants.join(".") + "|" + solutes.join(".") + "|" +
\* conditions.solvent;
seedBase(run) ==
    JoinWithDot(run.reactants) \o <<124>> \o JoinWithDot(run.solutes) \o <<124>>
        \o SolventText(run.solvent)

\* const productA = reactants[0]?.includes("CCO") ? "CH3CHO" : "CCO";
productA(run) ==
    IF Len(run.reactants) >= 1 /\ Includes(run.reactants[1], Units(<<"C", "C", "O">>))
    THEN Units(<<"C", "H", "3", "C", "H", "O">>) ELSE Units(<<"C", "C", "O">>)

\* const productB = seedBase.includes("O") ? "H2O" : "CO2";
productB(run) ==
    IF Includes(seedBase(run), Units(<<"O">>)) THEN Units(<<"H", "2", "O">>) ELSE Units(<<"C", "O", "2">>)

\* reactants.some((r) => r.trim().length > 0)
hasAtLeastOneReactant == \E i \in 1..Len(reactants) : Len(Trim(reactants[i])) > 0

\* Run enabled whenever a reactant is filled in.
canRun_whileSimulating == hasAtLeastOneReactant

\* const canRun = reactants.some((r) => r.trim().length > 0) && !isSimulating;
\* the Run button is disabled={!canRun}
canRun == hasAtLeastOneReactant /\ ~isSimulating

\* canSave={products.length > 0}; the Save button is disabled={!canSave}
canSave == Len(products) > 0

\* ReactionSafetyPanel: if (products.length === 0) return null;
SafetyPanelShown == Len(products) # 0

(***************************************************************************)
(* Run harness: a user edits the fields, chooses a solvent and clicks Run; *)
(* the 1600 ms timer of a run fires at any later moment.                   *)
(***************************************************************************)

\* The most runs awaiting their timer that are followed.
MaxRuns == 2

RunStart ==
    /\ isSimulating = FALSE
    /\ products = <<>>
    /\ byproducts = <<>>
    /\ simulations = EmptyBag

RunIdle == RunStart

\* handleSimulate up to its await, clicked on the enabled Run button:
\* setIsSimulating(true); setProducts([]); setByproducts([]);
ClickRun ==
    /\ canRun
    /\ hasAtLeastOneReactant
    /\ BagCardinality(simulations) < MaxRuns
    /\ isSimulating' = TRUE
    /\ products' = <<>>
    /\ byproducts' = <<>>
    /\ simulations' = simulations (+) SetToBag({RunSnapshot})
    /\ UNCHANGED notRun

\* handleSimulate after its await: setProducts([productA]);
\* setByproducts([productB]); setIsSimulating(false); rendered together
SimulationCompletes ==
    /\ \E run \in BagToSet(simulations) :
           /\ products' = <<productA(ClosedOver(run))>>
           /\ byproducts' = <<productB(ClosedOver(run))>>
           /\ simulations' = simulations (-) SetToBag({run})
    /\ isSimulating' = FALSE
    /\ UNCHANGED notRun

(***************************************************************************)
(* Call log harness: a caller makes calls of the pure functions and of     *)
(* generators one after another, in any order, repeating some.             *)
(***************************************************************************)

\* The most calls of one run.
MaxCalls == 3

\* Arguments the caller uses: strings to tokenize, (seed, salt) pairs,
\* estimator arguments, generator seeds.
CallSmiles == {smilesEthanol, smilesDichloromethane}

CallScoreArgs ==
    {<<smilesEthanol, Units(<<"t", "o", "x">>)>>, <<smilesEthanol, Units(<<"e", "n", "v">>)>>}

CallEstimateArgs ==
    {[reactantsCount |-> 1, solutesCount |-> 0, solventKey |-> "water",
      temperatureK |-> 298, pressureTenths |-> 10],
     [reactantsCount |-> 1, solutesCount |-> 1, solventKey |-> "dmso",
      temperatureK |-> 573, pressureTenths |-> 100]}

CallSeeds == {smilesEthanol}

CallsStart == calls = <<>>

CallsIdle == calls = <<>>

Logged(fn, args, result) == Append(calls, [fn |-> fn, args |-> args, result |-> result])

\* const elements = parseElementsFromSmiles(smiles);
InvokeParseElements ==
    /\ Len(calls) < MaxCalls
    /\ \E str \in CallSmiles :
           /\ elements' = parseElementsFromSmiles(str)
           /\ calls' = Logged("parseElementsFromSmiles", str, parseElementsFromSmiles(str))
    /\ UNCHANGED <<gens, notCalls>>

\* const formula = computeFormula(elements);  the array is only read
InvokeComputeFormula ==
    /\ Len(calls) < MaxCalls
    /\ calls' = Logged("computeFormula", elements, computeFormula(elements))
    /\ UNCHANGED <<elements, gens, notCalls>>

\* scoreFromSeed(seed, salt)
InvokeScoreFromSeed ==
    /\ Len(calls) < MaxCalls
    /\ \E pair \in CallScoreArgs :
           calls' = Logged("scoreFromSeed", pair, scoreFromSeed(pair[1], pair[2]))
    /\ UNCHANGED <<elements, gens, notCalls>>

\* estimateReactionTimeMinutes(...)
InvokeEstimate ==
    /\ Len(calls) < MaxCalls
    /\ \E args \in CallEstimateArgs :
           calls' = Logged("estimateReactionTimeMinutes", args,
                           estimateReactionTimeMinutes(args.reactantsCount, args.solutesCount,
                               args.solventKey, TemperatureOf(args), PressureOf(args)))
    /\ UNCHANGED <<elements, gens, notCalls>>

\* const rand = seededRandom(seed);
InvokeSeededRandom ==
    /\ Len(calls) < MaxCalls
    /\ \E seed \in CallSeeds :
           /\ gens' = Append(gens, seededRandom(seed))
           /\ calls' = Logged("seededRandom", seed, Len(gens) + 1)
    /\ UNCHANGED <<elements, notCalls>>

\* rand()
InvokeRand ==
    /\ Len(calls) < MaxCalls
    /\ \E g \in 1..Len(gens) :
           /\ gens' = DrawOn(gens, g)
           /\ calls' = Logged("rand", g, DrawOn(gens, g)[g].draws[Len(gens[g].draws) + 1])
    /\ UNCHANGED <<elements, notCalls>>

(***************************************************************************)
(* Pipeline harness: one string is tokenized and formatted, seeds a        *)
(* generator that is drawn from, and is scored; each call ends by          *)
(* returning a value or by throwing.                                       *)
(***************************************************************************)

Pending == [state |-> "pending"]

Returned(v) == [state |-> "returned", value |-> v]

Thrown(e) == [state |-> "thrown", error |-> e]

MaxTextLen == 3

\* Units of the short texts: C, l, a digit, a space, and U+00E9.
TextAlphabet == {67, 108, 49, 32, 233}

\* Texts longer than 200 units: atoms only, no token at all, and tokens
\* among units the sanitizer would remove.
LongTexts ==
    { [i \in 1..201 |-> 67], [i \in 1..205 |-> IF i % 2 = 0 THEN 32 ELSE 49],
      [i \in 1..210 |-> IF i % 3 = 0 THEN 233 ELSE IF i % 3 = 1 THEN 67 ELSE 108] }

PipelineTexts == SeqsUpTo(TextAlphabet, MaxTextLen) \cup LongTexts

PipelineSalts == {Units(<<"t", "o", "x">>)}

PipelineStart ==
    /\ text \in PipelineTexts
    /\ parsed = Pending
    /\ formatted = Pending
    /\ generator = Pending
    /\ drawn = Pending
    /\ scored = Pending

PipelineIdle ==
    /\ text = EmptyString
    /\ parsed = Pending
    /\ formatted = Pending
    /\ generator = Pending
    /\ drawn = Pending
    /\ scored = Pending

\* const elements = parseElementsFromSmiles(smiles);
PipelineParse ==
    /\ parsed = Pending
    /\ parsed' = Returned(parseElementsFromSmiles(text))
    /\ UNCHANGED <<text, formatted, generator, drawn, scored, notPipeline>>

\* const formula = computeFormula(elements);  elements.length of null
\* throws a TypeError
PipelineFormat ==
    /\ parsed.state = "returned"
    /\ formatted = Pending
    /\ formatted' = IF parsed.value = Null THEN Thrown("TypeError")
                    ELSE Returned(computeFormula(parsed.value))
    /\ UNCHANGED <<text, parsed, generator, drawn, scored, notPipeline>>

\* const rand = seededRandom(smiles);
PipelineSeed ==
    /\ generator = Pending
    /\ generator' = Returned(seededRandom(text))
    /\ UNCHANGED <<text, parsed, formatted, drawn, scored, notPipeline>>

\* rand()
PipelineDraw ==
    /\ generator.state = "returned"
    /\ drawn = Pending
    /\ drawn' = Returned(DrawOn(<<generator.value>>, 1)[1].draws[1])
    /\ UNCHANGED <<text, parsed, formatted, generator, scored, notPipeline>>

\* scoreFromSeed(seed, salt)
PipelineScore ==
    /\ scored = Pending
    /\ \E salt \in PipelineSalts : scored' = Returned(scoreFromSeed(text, salt))
    /\ UNCHANGED <<text, parsed, formatted, generator, drawn, notPipeline>>

(***************************************************************************)
(* PubChem image URL: getImageUrl                                          *)
(***************************************************************************)

\* const PUBCHEM_BASE = "https://pubchem.ncbi.nlm.nih.gov/rest/pug";
PUBCHEM_BASE ==
    Units(<<"h", "t", "t", "p", "s", ":", "/", "/", "p", "u", "b", "c", "h", "e", "m", ".", "n", "c", "b", "i", ".", "n", "l", "m", ".", "n", "i", "h", ".", "g", "o", "v", "/", "r", "e", "s", "t", "/", "p", "u", "g">>)

\* An optional argument (v.optional): left out of the call, or given.
NotSupplied == [given |-> FALSE, value |-> EmptyString]

Supplied(v) == [given |-> TRUE, value |-> v]

\* if (recordType), if (imageSize): undefined and "" are falsy
TruthyString(arg) == arg.given /\ arg.value # EmptyString

\* The UTF-8 bytes of a character of the Basic Multilingual Plane.
Utf8Bytes(u) ==
    IF u < 128 THEN <<u>>
    ELSE IF u < 2048 THEN <<192 + (u \div 64), 128 + (u % 64)>>
    ELSE <<224 + (u \div 4096), 128 + ((u \div 64) % 64), 128 + (u % 64)>>

\* %XX with uppercase hexadecimal digits, for each byte
PercentEncoded(bytes) ==
    LET hex(n) == IF n < 10 THEN 48 + n ELSE 55 + n
    IN  JoinStrings([i \in 1..Len(bytes) |->
                        <<37, hex(bytes[i] \div 16), hex(bytes[i] % 16)>>])

\* encodeURIComponent: letters, digits and - _ . ! ~ * ' ( ) stay, every
\* other character becomes the percent-encoding of its UTF-8 bytes
encodeURIComponent(str) ==
    LET stays(u) == IsUpper(u) \/ IsLower(u) \/ IsDigit(u)
                        \/ u \in {45, 95, 46, 33, 126, 42, 39, 40, 41}
    IN  JoinStrings([i \in 1..Len(str) |->
                        IF stays(str[i]) THEN <<str[i]>>
                        ELSE PercentEncoded(Utf8Bytes(str[i]))])

\* The application/x-www-form-urlencoded serializer of URLSearchParams:
\* letters, digits and * - . _ stay, a space becomes +, every other character
\* is percent-encoded; name=value pairs are joined by &.
FormUrlEncoded(str) ==
    LET stays(u) == IsUpper(u) \/ IsLower(u) \/ IsDigit(u) \/ u \in {42, 45, 46, 95}
    IN  JoinStrings([i \in 1..Len(str) |->
                        IF stays(str[i]) THEN <<str[i]>>
                        ELSE IF str[i] = 32 THEN <<43>>
                        ELSE PercentEncoded(Utf8Bytes(str[i]))])

\* params.toString()
SearchParamsToString(params) ==
    JoinStrings([i \in 1..Len(params) |->
                    (IF i = 1 THEN EmptyString ELSE <<38>>)
                        \o FormUrlEncoded(params[i].name) \o <<61>>
                        \o FormUrlEncoded(params[i].value)])

\* The handler with image_size set before record_type.
getImageUrl_sizeFirst(identifier, namespace, recordType, imageSize) ==
    LET base == PUBCHEM_BASE \o Units(<<"/", "c", "o", "m", "p", "o", "u", "n", "d", "/">>) \o namespace \o <<47>>
                    \o encodeURIComponent(identifier) \o Units(<<"/", "P", "N", "G">>)
        params ==
            (IF TruthyString(imageSize)
             THEN <<[name |-> Units(<<"i", "m", "a", "g", "e", "_", "s", "i", "z", "e">>), value |-> imageSize.value]>>
             ELSE <<>>)
            \o (IF TruthyString(recordType)
                THEN <<[name |-> Units(<<"r", "e", "c", "o", "r", "d", "_", "t", "y", "p", "e">>), value |-> recordType.value]>>
                ELSE <<>>)
    IN  IF SearchParamsToString(params) # EmptyString
        THEN base \o <<63>> \o SearchParamsToString(params)
        ELSE base

\* handler: async (ctx, { identifier, namespace, recordType, imageSize }) =>
\*   const base = `${PUBCHEM_BASE}/compound/${namespace}/${encodeURIComponent(identifier)}/PNG`;
\*   const params = new URLSearchParams();
\*   if (recordType) params.set("record_type", recordType);
\*   if (imageSize) params.set("image_size", imageSize);
\*   const url = params.toString() ? `${base}?${params.toString()}` : base;
getImageUrl(identifier, namespace, recordType, imageSize) ==
    LET base == PUBCHEM_BASE \o Units(<<"/", "c", "o", "m", "p", "o", "u", "n", "d", "/">>) \o namespace \o <<47>>
                    \o encodeURIComponent(identifier) \o Units(<<"/", "P", "N", "G">>)
        params ==
            (IF TruthyString(recordType)
             THEN <<[name |-> Units(<<"r", "e", "c", "o", "r", "d", "_", "t", "y", "p", "e">>), value |-> recordType.value]>>
             ELSE <<>>)
            \o (IF TruthyString(imageSize)
                THEN <<[name |-> Units(<<"i", "m", "a", "g", "e", "_", "s", "i", "z", "e">>), value |-> imageSize.value]>>
                ELSE <<>>)
    IN  IF SearchParamsToString(params) # EmptyString
        THEN base \o <<63>> \o SearchParamsToString(params)
        ELSE base

(***************************************************************************)
(* Image URL harness: one call of the action with validated arguments.     *)
(***************************************************************************)

\* The longest identifier of the short ones.
MaxIdLen == 2

\* Units of identifiers: C, a space, a slash, a percent sign, U+00E9, U+20AC.
IdAlphabet == {67, 32, 47, 37, 233, 8364}

\* identifier: v.string()
Identifiers == SeqsUpTo(IdAlphabet, MaxIdLen) \cup {Units(<<"b", "e", "n", "z", "e", "n", "e", " ", "r", "i", "n", "g">>), Units(<<"2", "2", "4", "4">>)}

\* namespace: v.union(v.literal("name"), v.literal("smiles"), v.literal("cid"))
Namespaces == {Units(<<"n", "a", "m", "e">>), Units(<<"s", "m", "i", "l", "e", "s">>), Units(<<"c", "i", "d">>)}

\* recordType: v.optional(v.union(v.literal("2d"), v.literal("3d")))
RecordTypes == {NotSupplied, Supplied(Units(<<"2", "d">>)), Supplied(Units(<<"3", "d">>))}

\* imageSize: v.optional(v.string())
ImageSizes ==
    {NotSupplied, Supplied(EmptyString), Supplied(Units(<<"3", "0", "0", "x", "3", "0", "0">>)), Supplied(Units(<<"a", " ", "b", "&", "c", "=", "d">>))}

ImageStart ==
    /\ imageArgs \in [identifier : Identifiers, namespace : Namespaces,
                      recordType : RecordTypes, imageSize : ImageSizes]
    /\ imageUrl = EmptyString
    /\ ipc = "ready"

ImageIdle ==
    /\ imageArgs = [identifier |-> EmptyString, namespace |-> EmptyString,
                    recordType |-> NotSupplied, imageSize |-> NotSupplied]
    /\ imageUrl = EmptyString
    /\ ipc = "idle"

\* pubchem.ts: return url;
CallGetImageUrl ==
    /\ ipc = "ready"
    /\ imageUrl' = getImageUrl(imageArgs.identifier, imageArgs.namespace,
                               imageArgs.recordType, imageArgs.imageSize)
    /\ ipc' = "done"
    /\ UNCHANGED <<imageArgs, notImage>>

\* cheminfoMutations.ts: the same URL is built, fetched, and returned
\* whether the response is ok, is not ok, or the fetch is rejected.
CallGetImageUrlFetched ==
    /\ ipc = "ready"
    /\ \E fetched \in {"ok", "not ok", "rejected"} :
           imageUrl' = getImageUrl(imageArgs.identifier, imageArgs.namespace,
                                   imageArgs.recordType, imageArgs.imageSize)
    /\ ipc' = "done"
    /\ UNCHANGED <<imageArgs, notImage>>

(***************************************************************************)
(* FastAPI wrapper: callFastApi and the actions built on it                *)
(***************************************************************************)

\* JSON.stringify of a string: quotes around it, " and \ escaped
JsonString(str) ==
    <<34>> \o JoinStrings([i \in 1..Len(str) |->
                              IF str[i] \in {34, 92} THEN <<92, str[i]>> ELSE <<str[i]>>])
           \o <<34>>

\* JSON.stringify(data) for data = { structure }
JsonStringify(data) ==
    <<123, 34>> \o Units(<<"s", "t", "r", "u", "c", "t", "u", "r", "e">>) \o <<34, 58>> \o JsonString(data.structure) \o <<125>>

\* throw new Error("FASTAPI_CHEM_BASE_URL is not set. Configure it in
\* Integrations > FastAPI Cheminformatics.")
NotSetMessage ==
    Units(<<"F", "A", "S", "T", "A", "P", "I", "_", "C", "H", "E", "M", "_", "B", "A", "S", "E", "_", "U", "R", "L", " ", "i", "s", " ", "n", "o", "t", " ", "s", "e", "t", ".", " ", "C", "o", "n", "f", "i", "g", "u", "r", "e", " ", "i", "t", " ", "i", "n", " ", "I", "n", "t", "e", "g", "r", "a", "t", "i", "o", "n", "s", " ", ">", " ", "F", "a", "s", "t", "A", "P", "I", " ", "C", "h", "e", "m", "i", "n", "f", "o", "r", "m", "a", "t", "i", "c", "s", ".">>)

\* const headers = { "Content-Type": "application/json" };
\* if (API_KEY) headers["Authorization"] = `Bearer ${API_KEY}`;
RequestHeaders(key) ==
    <<[name |-> "Content-Type", value |-> Units(<<"a", "p", "p", "l", "i", "c", "a", "t", "i", "o", "n", "/", "j", "s", "o", "n">>)]>>
        \o (IF TruthyString(key)
            THEN <<[name |-> "Authorization", value |-> Units(<<"B", "e", "a", "r", "e", "r", " ">>) \o key.value]>>
            ELSE <<>>)

\* fetch(`${BASE_URL}${endpoint}`, { method: "POST", headers, body: JSON.stringify(data) })
FetchRequest(base, key, endpoint, data) ==
    [url |-> base.value \o endpoint, method |-> "POST",
     headers |-> RequestHeaders(key), body |-> JsonStringify(data)]

\* The part of callFastApi after the fetch, with a not-ok response's parsed
\* body returned like an ok one's.
ResponseOutcome_lenient(endpoint, res) ==
    IF res.json = "unparsable" THEN Thrown(Units(<<"S", "y", "n", "t", "a", "x", "E", "r", "r", "o", "r">>)) ELSE Returned(res.json)

\* if (!res.ok) { const body = await res.text().catch(() => "");
\*   throw new Error(`FastAPI error ${res.status} on ${endpoint}: ${body}`); }
\* return res.json();
ResponseOutcome(endpoint, res) ==
    IF ~res.ok
    THEN Thrown(Units(<<"F", "a", "s", "t", "A", "P", "I", " ", "e", "r", "r", "o", "r", " ">>) \o NumberToString(res.status) \o Units(<<" ", "o", "n", " ">>) \o endpoint
                    \o <<58, 32>> \o (IF res.text.given THEN res.text.value ELSE EmptyString))
    ELSE IF res.json = "unparsable" THEN Thrown(Units(<<"S", "y", "n", "t", "a", "x", "E", "r", "r", "o", "r">>))
    ELSE Returned(res.json)

(***************************************************************************)
(* FastAPI harness: the module has been loaded; the environment is changed *)
(* (as the tests do), calls are made and answered.                         *)
(***************************************************************************)

\* The most calls of one run.
MaxApiCalls == 1

\* Values of FASTAPI_CHEM_BASE_URL and FASTAPI_CHEM_API_KEY: unset, or the
\* tests' values.
BaseUrlValues == {NotSupplied, Supplied(Units(<<"h", "t", "t", "p", "s", ":", "/", "/", "c", "h", "e", "m", ".", "e", "x", "a", "m", "p", "l", "e", ".", "c", "o", "m">>))}

ApiKeyValues == {NotSupplied, Supplied(Units(<<"s", "e", "c", "r", "e", "t", "-", "k", "e", "y">>))}

\* callFastApi(ctx, "/validate", { structure }): directly (__test), or from
\* processAndSaveStructure; a structure with a quote in it among them.
ApiEndpoints == {Units(<<"/", "v", "a", "l", "i", "d", "a", "t", "e">>)}

ApiData == {[structure |-> Units(<<"C", "C", "O">>)], [structure |-> <<67, 34>>]}

\* What the backend answers: ok with a JSON body, ok with a body that is not
\* JSON, not ok with a text body, not ok with a body that cannot be read.
ApiResponses ==
    {[ok |-> TRUE, status |-> 200, text |-> NotSupplied, json |-> "{isValid: true}"],
     [ok |-> TRUE, status |-> 200, text |-> NotSupplied, json |-> "unparsable"],
     [ok |-> FALSE, status |-> 500, text |-> Supplied(Units(<<"b", "o", "o", "m">>)), json |-> "{detail: boom}"],
     [ok |-> FALSE, status |-> 404, text |-> NotSupplied, json |-> "unparsable"]}

\* const BASE_URL = process.env.FASTAPI_CHEM_BASE_URL;
\* const API_KEY = process.env.FASTAPI_CHEM_API_KEY;   (on module load)
ApiStart ==
    /\ processEnv \in [FASTAPI_CHEM_BASE_URL : BaseUrlValues,
                       FASTAPI_CHEM_API_KEY : ApiKeyValues]
    /\ BASE_URL = processEnv.FASTAPI_CHEM_BASE_URL
    /\ API_KEY = processEnv.FASTAPI_CHEM_API_KEY
    /\ apiCalls = <<>>
    /\ stored = <<>>

ApiIdle ==
    /\ processEnv = [FASTAPI_CHEM_BASE_URL |-> NotSupplied, FASTAPI_CHEM_API_KEY |-> NotSupplied]
    /\ BASE_URL = NotSupplied
    /\ API_KEY = NotSupplied
    /\ apiCalls = <<>>
    /\ stored = <<>>

\* process.env.FASTAPI_CHEM_BASE_URL = ...; delete process.env.FASTAPI_CHEM_BASE_URL;
SetBaseUrl ==
    /\ \E value \in BaseUrlValues :
           processEnv' = [processEnv EXCEPT !.FASTAPI_CHEM_BASE_URL = value]
    /\ UNCHANGED <<BASE_URL, API_KEY, apiCalls, stored, notApi>>

\* process.env.FASTAPI_CHEM_API_KEY = ...; delete process.env.FASTAPI_CHEM_API_KEY;
SetApiKey ==
    /\ \E value \in ApiKeyValues :
           processEnv' = [processEnv EXCEPT !.FASTAPI_CHEM_API_KEY = value]
    /\ UNCHANGED <<BASE_URL, API_KEY, apiCalls, stored, notApi>>

\* callFastApi up to its await fetch(...): it throws when BASE_URL is falsy,
\* otherwise the request goes out. Each call is kept with the environment it
\* was made in, the requests it issued, the response and its outcome.
StartCall ==
    /\ Len(apiCalls) < MaxApiCalls
    /\ \A i \in 1..Len(apiCalls) : apiCalls[i].outcome # Pending
    /\ \E via \in {"callFastApi", "processAndSaveStructure"},
          endpoint \in ApiEndpoints, data \in ApiData :
           apiCalls' = Append(apiCalls,
               [via |-> via, endpoint |-> endpoint, data |-> data, env |-> processEnv,
                requests |-> IF TruthyString(BASE_URL)
                             THEN <<FetchRequest(BASE_URL, API_KEY, endpoint, data)>>
                             ELSE <<>>,
                response |-> <<>>,
                outcome |-> IF TruthyString(BASE_URL) THEN Pending
                            ELSE Thrown(NotSetMessage)])
    /\ UNCHANGED <<processEnv, BASE_URL, API_KEY, stored, notApi>>

\* The fetch resolves: callFastApi throws or returns; processAndSaveStructure
\* then runs storeChemResult with what was returned (the timestamp is left
\* out of the row).
ResponseArrives ==
    /\ apiCalls # <<>>
    /\ apiCalls[Len(apiCalls)].outcome = Pending
    /\ \E res \in ApiResponses :
           LET call == apiCalls[Len(apiCalls)]
               outcome == ResponseOutcome(call.endpoint, res)
           IN  /\ apiCalls' = [apiCalls EXCEPT ![Len(apiCalls)] =
                                  [call EXCEPT !.response = <<res>>, !.outcome = outcome]]
               /\ stored' = IF call.via = "processAndSaveStructure"
                                 /\ outcome.state = "returned"
                            THEN Append(stored,
                                     [type |-> "structure_validation",
                                      input |-> call.data.structure,
                                      result |-> outcome.value])
                            ELSE stored
    /\ UNCHANGED <<processEnv, BASE_URL, API_KEY, notApi>>

\* The fetch is rejected (no response): the rejection is the call's.
FetchRejects ==
    /\ apiCalls # <<>>
    /\ apiCalls[Len(apiCalls)].outcome = Pending
    /\ apiCalls' = [apiCalls EXCEPT ![Len(apiCalls)].outcome = Thrown(Units(<<"f", "e", "t", "c", "h", " ", "f", "a", "i", "l", "e", "d">>))]
    /\ UNCHANGED <<processEnv, BASE_URL, API_KEY, stored, notApi>>

(***************************************************************************)
(* Saved reactions and molecules: the Convex mutations and queries         *)
(***************************************************************************)

\* Who makes a request: nobody signed in, or one of the users.
UserIds == {"alice", "bob"}

Callers == UserIds \cup {"anonymous"}

\* getCurrentUser(ctx): the caller's user document, or null (written as a
\* document with the id "null") when the request carries no identity.
getCurrentUser(caller) ==
    IF caller \in UserIds THEN [_id |-> caller] ELSE [_id |-> "null"]

\* A table: its documents in insertion order; a document's id is its place.
\* ctx.db.insert(table, { ...args, userId: user._id })
Inserted(table, args, user) ==
    Append(table, [_id |-> Len(table) + 1, name |-> args.name, userId |-> user._id])

\* .withIndex("by_user", (q) => q.eq("userId", user._id)).collect()
ByUser(table, user) == SelectSeq(table, LAMBDA doc : doc.userId = user._id)

\* .order("desc")
Descending(docs) == [i \in 1..Len(docs) |-> docs[Len(docs) + 1 - i]]

\* getUserReactions
getUserReactions(table, user) ==
    IF user._id = "null" THEN Returned(<<>>)
    ELSE Returned(Descending(ByUser(table, user)))

\* getUserMolecules
getUserMolecules(table, user) ==
    IF user._id = "null" THEN Returned(<<>>)
    ELSE Returned(ByUser(table, user))

\* getReaction without the comparison of reaction.userId with user._id.
getReaction_anyOwner(table, user, id) ==
    IF user._id = "null" THEN Thrown("Authentication required")
    ELSE IF id \notin 1..Len(table) THEN Thrown("Reaction not found")
    ELSE Returned(table[id])

\* getReaction: ctx.db.get(args.id) is null for an id without a document
getReaction(table, user, id) ==
    IF user._id = "null" THEN Thrown("Authentication required")
    ELSE IF id \notin 1..Len(table) \/ table[id].userId # user._id
    THEN Thrown("Reaction not found")
    ELSE Returned(table[id])

\* getMolecule
getMolecule(table, user, id) ==
    IF user._id = "null" THEN Thrown("Authentication required")
    ELSE IF id \notin 1..Len(table) \/ table[id].userId # user._id
    THEN Thrown("Molecule not found")
    ELSE Returned(table[id])

(***************************************************************************)
(* Saved-data harness: requests by the users and by nobody, in any order.  *)
(***************************************************************************)

\* The most documents of a table.
MaxDocs == 2

\* args of a save: the name stands for all the validated fields.
SaveArgs == {[name |-> "aspirin"]}

\* args.id: the id of a document, or one without a document.
DocIds == 1..(MaxDocs + 1)

DbStart ==
    /\ reactionDocs = <<>>
    /\ moleculeDocs = <<>>
    /\ request = [fn |-> "none", caller |-> "anonymous", id |-> 0, outcome |-> Pending,
                  before |-> <<>>]

DbIdle == DbStart

\* The request just served: who made it, its id argument (0 when it has
\* none), its outcome, and the table as it was before.
Served(fn, caller, id, outcome, before) ==
    [fn |-> fn, caller |-> caller, id |-> id, outcome |-> outcome, before |-> before]

\* saveReaction
SaveReaction ==
    /\ \E caller \in Callers, args \in SaveArgs :
           LET user == getCurrentUser(caller)
           IN  IF user._id = "null"
               THEN /\ reactionDocs' = reactionDocs
                    /\ request' = Served("saveReaction", caller, 0,
                                         Thrown("Authentication required"), reactionDocs)
               ELSE /\ Len(reactionDocs) < MaxDocs
                    /\ reactionDocs' = Inserted(reactionDocs, args, user)
                    /\ request' = Served("saveReaction", caller, 0,
                                         Returned(Len(reactionDocs) + 1), reactionDocs)
    /\ UNCHANGED <<moleculeDocs, notDb>>

\* saveMolecule
SaveMolecule ==
    /\ \E caller \in Callers, args \in SaveArgs :
           LET user == getCurrentUser(caller)
           IN  IF user._id = "null"
               THEN /\ moleculeDocs' = moleculeDocs
                    /\ request' = Served("saveMolecule", caller, 0,
                                         Thrown("Authentication required"), moleculeDocs)
               ELSE /\ Len(moleculeDocs) < MaxDocs
                    /\ moleculeDocs' = Inserted(moleculeDocs, args, user)
                    /\ request' = Served("saveMolecule", caller, 0,
                                         Returned(Len(moleculeDocs) + 1), moleculeDocs)
    /\ UNCHANGED <<reactionDocs, notDb>>

GetUserReactions ==
    /\ \E caller \in Callers :
           request' = Served("getUserReactions", caller, 0,
                             getUserReactions(reactionDocs, getCurrentUser(caller)), reactionDocs)
    /\ UNCHANGED <<reactionDocs, moleculeDocs, notDb>>

GetUserMolecules ==
    /\ \E caller \in Callers :
           request' = Served("getUserMolecules", caller, 0,
                             getUserMolecules(moleculeDocs, getCurrentUser(caller)), moleculeDocs)
    /\ UNCHANGED <<reactionDocs, moleculeDocs, notDb>>

GetReaction ==
    /\ \E caller \in Callers, id \in DocIds :
           request' = Served("getReaction", caller, id,
                             getReaction(reactionDocs, getCurrentUser(caller), id), reactionDocs)
    /\ UNCHANGED <<reactionDocs, moleculeDocs, notDb>>

GetMolecule ==
    /\ \E caller \in Callers, id \in DocIds :
           request' = Served("getMolecule", caller, id,
                             getMolecule(moleculeDocs, getCurrentUser(caller), id), moleculeDocs)
    /\ UNCHANGED <<reactionDocs, moleculeDocs, notDb>>

(***************************************************************************)
(* MoleculeViewer: drag to rotate, wheel to zoom.  Distances are in tenths *)
(* of a unit, angles in units of 0.005 rad.  The animation frame callback  *)
(* handles no event and is not followed.                                   *)
(***************************************************************************)

\* THREE.MathUtils.clamp(value, min, max): Math.max(min, Math.min(max, value))
clamp(value, min, max) ==
    LET capped == IF value < max THEN value ELSE max
    IN  IF min > capped THEN min ELSE capped

\* targetDist + (e.deltaY > 0 ? 0.8 : -0.8), clamped to 4 and 24
TargetAfterWheel(dist, e) ==
    clamp(dist + (IF e.deltaY > 0 THEN 8 ELSE -8), 40, 240)

\* onMouseMove without its first line.
RotationAfterMove_always(dragging, rotation, prev, e) ==
    [x |-> rotation.x + (e.clientY - prev.y), y |-> rotation.y + (e.clientX - prev.x)]

\* onMouseMove: if (!isDragging) return; ... group.rotation.y += dx * 0.005;
\* group.rotation.x += dy * 0.005;
RotationAfterMove(dragging, rotation, prev, e) ==
    IF ~dragging THEN rotation
    ELSE [x |-> rotation.x + (e.clientY - prev.y), y |-> rotation.y + (e.clientX - prev.x)]

(***************************************************************************)
(* Viewer harness: mouse and wheel events in any order.                    *)
(***************************************************************************)

\* The most mousemove events of one run.
MaxMoves == 2

\* Where the pointer is when an event is sent, and how the wheel turned.
PointerPlaces == {[clientX |-> 0, clientY |-> 0], [clientX |-> 3, clientY |-> 2]}

WheelTurns == {[deltaY |-> -100], [deltaY |-> 0], [deltaY |-> 100]}

ViewerStart ==
    /\ isDragging = FALSE
    /\ prevXY = [x |-> 0, y |-> 0]
    /\ targetDist = 100
    /\ groupRotation = [x |-> 0, y |-> 0]
    /\ handled = [type |-> "none", wasDragging |-> FALSE, turned |-> FALSE,
                  distBefore |-> 100, button |-> "none", moves |-> 0]

ViewerIdle == ViewerStart

\* renderer.domElement "mousedown"
OnMouseDown ==
    /\ \E e \in PointerPlaces :
           /\ isDragging' = TRUE
           /\ prevXY' = [x |-> e.clientX, y |-> e.clientY]
    /\ handled' = [handled EXCEPT !.type = "mousedown", !.wasDragging = isDragging,
                                  !.turned = FALSE, !.distBefore = targetDist,
                                  !.button = "down"]
    /\ UNCHANGED <<targetDist, groupRotation, notViewer>>

\* window "mousemove"
OnMouseMove ==
    /\ handled.moves < MaxMoves
    /\ \E e \in PointerPlaces :
           /\ groupRotation' = RotationAfterMove(isDragging, groupRotation, prevXY, e)
           /\ prevXY' = IF isDragging THEN [x |-> e.clientX, y |-> e.clientY] ELSE prevXY
    /\ handled' = [handled EXCEPT !.type = "mousemove", !.wasDragging = isDragging,
                                  !.turned = (groupRotation' # groupRotation),
                                  !.distBefore = targetDist, !.moves = @ + 1]
    /\ UNCHANGED <<isDragging, targetDist, notViewer>>

\* window "mouseup"
OnMouseUp ==
    /\ isDragging' = FALSE
    /\ handled' = [handled EXCEPT !.type = "mouseup", !.wasDragging = isDragging,
                                  !.turned = FALSE, !.distBefore = targetDist,
                                  !.button = "up"]
    /\ UNCHANGED <<prevXY, targetDist, groupRotation, notViewer>>

\* renderer.domElement "wheel"
OnWheel ==
    /\ \E e \in WheelTurns : targetDist' = TargetAfterWheel(targetDist, e)
    /\ handled' = [handled EXCEPT !.type = "wheel", !.wasDragging = isDragging,
                                  !.turned = FALSE, !.distBefore = targetDist]
    /\ UNCHANGED <<isDragging, prevXY, groupRotation, notViewer>>

(***************************************************************************)
(* Specifications                                                          *)
(***************************************************************************)

\* The generators, the one part of these utilities that keeps state.
Init ==
    GeneratorsStart /\ FormulaIdle /\ TokenizerIdle /\ ScoreIdle
        /\ EstimatorIdle /\ SanitizerIdle /\ SimulatorIdle /\ CallsIdle
        /\ PipelineIdle /\ ImageIdle /\ ApiIdle /\ DbIdle /\ RunIdle /\ ViewerIdle

Next == CreateGenerator \/ Draw

Spec == Init /\ [][Next]_vars

FormulaInit ==
    FormulaStart /\ TokenizerIdle /\ GeneratorsIdle /\ ScoreIdle
        /\ EstimatorIdle /\ SanitizerIdle /\ SimulatorIdle /\ CallsIdle
        /\ PipelineIdle /\ ImageIdle /\ ApiIdle /\ DbIdle /\ RunIdle /\ ViewerIdle

FormulaNext == CallComputeFormula \/ ReorderElements

SpecFormula == FormulaInit /\ [][FormulaNext]_vars

TokenizerInit ==
    TokenizerStart /\ FormulaIdle /\ GeneratorsIdle /\ ScoreIdle
        /\ EstimatorIdle /\ SanitizerIdle /\ SimulatorIdle /\ CallsIdle
        /\ PipelineIdle /\ ImageIdle /\ ApiIdle /\ DbIdle /\ RunIdle /\ ViewerIdle

TokenizerNext == CallParseElements

SpecTokenizer == TokenizerInit /\ [][TokenizerNext]_vars

ScoreInit ==
    ScoreStart /\ FormulaIdle /\ TokenizerIdle /\ GeneratorsIdle
        /\ EstimatorIdle /\ SanitizerIdle /\ SimulatorIdle /\ CallsIdle
        /\ PipelineIdle /\ ImageIdle /\ ApiIdle /\ DbIdle /\ RunIdle /\ ViewerIdle

ScoreNext == CallScoreFromSeed \/ CallPanelScoreFromSeed

SpecScore == ScoreInit /\ [][ScoreNext]_vars

EstimatorInit ==
    EstimatorStart /\ FormulaIdle /\ TokenizerIdle /\ GeneratorsIdle /\ ScoreIdle
        /\ SanitizerIdle /\ SimulatorIdle /\ CallsIdle
        /\ PipelineIdle /\ ImageIdle /\ ApiIdle /\ DbIdle /\ RunIdle /\ ViewerIdle

EstimatorNext == CallEstimate

SpecEstimator == EstimatorInit /\ [][EstimatorNext]_vars

SanitizerInit ==
    SanitizerStart /\ FormulaIdle /\ TokenizerIdle /\ GeneratorsIdle /\ ScoreIdle
        /\ EstimatorIdle /\ SimulatorIdle /\ CallsIdle
        /\ PipelineIdle /\ ImageIdle /\ ApiIdle /\ DbIdle /\ RunIdle /\ ViewerIdle

SanitizerNext == CallSanitize

SpecSanitizer == SanitizerInit /\ [][SanitizerNext]_vars

SimulatorInit ==
    SimulatorStart /\ FormulaIdle /\ TokenizerIdle /\ GeneratorsIdle /\ ScoreIdle
        /\ EstimatorIdle /\ SanitizerIdle /\ CallsIdle
        /\ PipelineIdle /\ ImageIdle /\ ApiIdle /\ DbIdle /\ RunIdle /\ ViewerIdle

\* The input fields: typing, adding, removing, the libraries.
EditFields ==
    \/ UpdateReactant \/ AddReactant \/ RemoveReactant \/ AddReactantFromLibrary
    \/ UpdateSolute \/ AddSolute \/ RemoveSolute \/ AddSoluteFromLibrary

\* The component while its fields and conditions are edited.
SimulatorNext == EditFields \/ ChangeSolvent \/ ChangeTemperature \/ ChangePressure

SpecSimulator == SimulatorInit /\ [][SimulatorNext]_vars

\* The component while its fields and solvent are edited and it is run.
RunNext == EditFields \/ ChangeSolvent \/ ClickRun \/ SimulationCompletes

SpecRun == SimulatorInit /\ [][RunNext]_vars

\* The component while its fields are typed into, added and removed and the
\* two services are asked.
ServicesNext ==
    \/ UpdateReactant \/ AddReactant \/ RemoveReactant
    \/ UpdateSolute \/ AddSolute \/ RemoveSolute
    \/ ClickValidateViaPubChem \/ ClickNormalizeViaCheminfo
    \/ AnswersArrive \/ RequestFails

SpecServices == SimulatorInit /\ [][ServicesNext]_vars

CallsInit ==
    CallsStart /\ FormulaIdle /\ TokenizerIdle /\ GeneratorsIdle /\ ScoreIdle
        /\ EstimatorIdle /\ SanitizerIdle /\ SimulatorIdle /\ PipelineIdle /\ ImageIdle /\ ApiIdle /\ DbIdle /\ RunIdle /\ ViewerIdle

CallsNext ==
    \/ InvokeParseElements \/ InvokeComputeFormula \/ InvokeScoreFromSeed
    \/ InvokeEstimate \/ InvokeSeededRandom \/ InvokeRand

SpecCalls == CallsInit /\ [][CallsNext]_vars

PipelineInit ==
    PipelineStart /\ FormulaIdle /\ TokenizerIdle /\ GeneratorsIdle /\ ScoreIdle
        /\ EstimatorIdle /\ SanitizerIdle /\ SimulatorIdle /\ CallsIdle /\ ImageIdle /\ ApiIdle /\ DbIdle /\ RunIdle /\ ViewerIdle

PipelineNext ==
    PipelineParse \/ PipelineFormat \/ PipelineSeed \/ PipelineDraw \/ PipelineScore

SpecPipeline == PipelineInit /\ [][PipelineNext]_vars

ImageInit ==
    ImageStart /\ FormulaIdle /\ TokenizerIdle /\ GeneratorsIdle /\ ScoreIdle
        /\ EstimatorIdle /\ SanitizerIdle /\ SimulatorIdle /\ CallsIdle
        /\ PipelineIdle /\ ApiIdle /\ DbIdle /\ RunIdle /\ ViewerIdle

ImageNext == CallGetImageUrl \/ CallGetImageUrlFetched

SpecImage == ImageInit /\ [][ImageNext]_vars

ApiInit ==
    ApiStart /\ FormulaIdle /\ TokenizerIdle /\ GeneratorsIdle /\ ScoreIdle
        /\ EstimatorIdle /\ SanitizerIdle /\ SimulatorIdle /\ CallsIdle
        /\ PipelineIdle /\ ImageIdle /\ DbIdle /\ RunIdle /\ ViewerIdle

ApiNext == SetBaseUrl \/ SetApiKey \/ StartCall \/ ResponseArrives \/ FetchRejects

SpecApi == ApiInit /\ [][ApiNext]_vars

DbInit ==
    DbStart /\ FormulaIdle /\ TokenizerIdle /\ GeneratorsIdle /\ ScoreIdle
        /\ EstimatorIdle /\ SanitizerIdle /\ SimulatorIdle /\ CallsIdle
        /\ PipelineIdle /\ ImageIdle /\ ApiIdle /\ RunIdle /\ ViewerIdle

DbNext ==
    \/ SaveReaction \/ SaveMolecule \/ GetUserReactions \/ GetUserMolecules
    \/ GetReaction \/ GetMolecule

SpecDb == DbInit /\ [][DbNext]_vars

ViewerInit ==
    ViewerStart /\ FormulaIdle /\ TokenizerIdle /\ GeneratorsIdle /\ ScoreIdle
        /\ EstimatorIdle /\ SanitizerIdle /\ SimulatorIdle /\ CallsIdle
        /\ PipelineIdle /\ ImageIdle /\ ApiIdle /\ DbIdle /\ RunIdle

ViewerNext == OnMouseDown \/ OnMouseMove \/ OnMouseUp \/ OnWheel

SpecViewer == ViewerInit /\ [][ViewerNext]_vars

(***************************************************************************)
(* Reading a formula string back: its symbols and the digits after each.   *)
(***************************************************************************)

\* The length of the longest run of code units satisfying the class that
\* starts at position i of s.
RECURSIVE DigitRun(_, _)
DigitRun(s, i) ==
    IF i <= Len(s) /\ IsDigit(s[i]) THEN 1 + DigitRun(s, i + 1) ELSE 0

\* The entries <<symbol, digits>> of a formula string, left to right; a
\* symbol is an uppercase letter with the lowercase letter after it, if any.
RECURSIVE FormulaEntriesFrom(_, _)
FormulaEntriesFrom(s, i) ==
    IF i > Len(s) THEN <<>>
    ELSE LET symLen == IF i < Len(s) /\ IsLower(s[i + 1]) THEN 2 ELSE 1
             digLen == DigitRun(s, i + symLen)
         IN  <<[sym |-> SubSeq(s, i, i + symLen - 1),
                digits |-> SubSeq(s, i + symLen, i + symLen + digLen - 1)]>>
             \o FormulaEntriesFrom(s, i + symLen + digLen)

FormulaEntries(s) == FormulaEntriesFrom(s, 1)

FormulaSymbols(s) == [i \in 1..Len(FormulaEntries(s)) |-> FormulaEntries(s)[i].sym]

Occurrences(els, el) == Cardinality({i \in 1..Len(els) : els[i] = el})

ElementSet(els) == {els[i] : i \in 1..Len(els)}

\* C1: after computeFormula, every element of the output string is followed
\* by its number of occurrences in the input when that number exceeds 1 and
\* by nothing when it is 1, carbon and hydrogen included.
C1_CountFollowsEveryElement ==
    fpc = "done" =>
        \A i \in 1..Len(FormulaEntries(formula)) :
            LET e == FormulaEntries(formula)[i]
                n == Occurrences(elements, e.sym)
            IN  e.digits = (IF n > 1 THEN NumberToString(n) ELSE EmptyString)

\* The symbols syms are the distinct elements of els, each once, in Hill
\* order: C, then H, then the others ascending when C occurs; all ascending
\* when it does not.
InHillOrder(syms, els) ==
    LET first == IF symC \in ElementSet(els)
                 THEN (IF symH \in ElementSet(els) THEN 3 ELSE 2)
                 ELSE 1
    IN  /\ Len(syms) = Cardinality(ElementSet(els))
        /\ {syms[i] : i \in 1..Len(syms)} = ElementSet(els)
        /\ symC \in ElementSet(els) => syms[1] = symC
        /\ first = 3 => syms[2] = symH
        /\ \A i, j \in first..Len(syms) : i < j => StrLess(syms[i], syms[j])

\* C2: computeFormula emits every distinct input element exactly once, in
\* Hill order.
C2_HillOrder ==
    fpc = "done" => InHillOrder(FormulaSymbols(formula), elements)

\* C2's case: carbon and hydrogen are hoisted over an element that sorts
\* before them.
C2_Witness ==
    /\ fpc = "done"
    /\ {symC, symH, symBr} \subseteq ElementSet(elements)
    /\ FormulaSymbols(formula) = <<symC, symH, symBr>>

\* C3: the result does not depend on the order of the tokens (a reordered
\* array formats to what the original array formats to), and the empty
\* array formats to the empty string.
C3_PermutationInvariant ==
    fpc = "done" =>
        /\ formula = computeFormula(original)
        /\ elements = <<>> => formula = EmptyString

\* C3's case: a call on an array that is a genuine reordering of the original.
C3_Witness ==
    /\ fpc = "done"
    /\ elements # original
    /\ Cardinality(ElementSet(elements)) >= 3
    /\ symC \notin ElementSet(elements)

(***************************************************************************)
(* Tokenizer claims                                                        *)
(***************************************************************************)

\* t has the shape Cl | Br | one uppercase letter, optionally one lowercase.
IsSymbolShaped(t) ==
    /\ Len(t) \in {1, 2}
    /\ IsUpper(t[1])
    /\ Len(t) = 2 => IsLower(t[2])

\* Index i of smiles lies inside one of the returned matches.
Covered(i) ==
    \E k \in 1..Len(tokens) : tstarts[k] <= i /\ i < tstarts[k] + Len(tokens[k])

RemoveAt(s, i) == SubSeq(s, 1, i - 1) \o SubSeq(s, i + 1, Len(s))

UpperPositions(s) == {i \in 1..Len(s) : IsUpper(s[i])}

\* C4: the result is the left-to-right sequence of non-overlapping matches
\* of (Cl | Br | uppercase letter with an optional lowercase letter): each
\* token is the symbol-shaped substring at its index, taking the lowercase
\* letter when there is one; every occurrence of Cl or Br is one two-letter
\* token; the tokens are in the order of their indices.
C4_HalogensWholeAndInOrder ==
    tpc = "done" =>
        /\ Len(tstarts) = Len(tokens)
        /\ \A k \in 1..Len(tokens) :
            /\ IsSymbolShaped(tokens[k])
            /\ tokens[k] = SubSeq(smiles, tstarts[k], tstarts[k] + Len(tokens[k]) - 1)
            /\ (tstarts[k] < Len(smiles) /\ IsLower(smiles[tstarts[k] + 1]))
                   => Len(tokens[k]) = 2
            /\ k < Len(tokens) => tstarts[k] + Len(tokens[k]) <= tstarts[k + 1]
        /\ \A i \in 1..(Len(smiles) - 1) :
            SubSeq(smiles, i, i + 1) \in {symCl, symBr} =>
                \E k \in 1..Len(tokens) :
                    tstarts[k] = i /\ tokens[k] = SubSeq(smiles, i, i + 1)
        /\ smiles = smilesDichloromethane => tokens = <<symCl, symC, symCl>>
        /\ smiles = smilesEthanol => tokens = <<symC, symC, symO>>
        /\ smiles = symBr => tokens = <<symBr>>

\* C4's case: a string with a halogen between other atoms has been tokenized.
C4_Witness ==
    /\ tpc = "done"
    /\ smiles = smilesDichloromethane
    /\ tokens = <<symCl, symC, symCl>>

\* C5: there is one token per uppercase letter of the input, each token
\* starts at an uppercase letter, and an input without uppercase letters
\* gives the empty array.
C5_OneTokenPerUppercaseLetter ==
    tpc = "done" =>
        /\ Len(tokens) = Cardinality(UpperPositions(smiles))
        /\ {tstarts[k] : k \in 1..Len(tstarts)} = UpperPositions(smiles)
        /\ \A k \in 1..Len(tokens) : tokens[k][1] = smiles[tstarts[k]]
        /\ UpperPositions(smiles) = {} => tokens = <<>>
        /\ smiles = Units(<<"1", "2", "3", "(", ")", "=">>) => tokens = <<>>

\* C5's case: brackets, charges and a dot around two atoms were skipped.
C5_Witness ==
    /\ tpc = "done"
    /\ smiles = Units(<<"[", "N", "a", "+", "]", ".", "[", "C", "l", "-", "]">>)
    /\ tokens = <<symNa, symCl>>

\* C6 as claimed: a lowercase letter that does not follow an uppercase
\* halogen letter (C or B) is outside every token, and the tokens are those
\* of the input without it. (Read with "halogen letter" as the C of Cl or
\* the B of Br only, the claim covers more letters and fails all the more.)
C6_LowercaseOutsideHalogenIgnored ==
    tpc = "done" =>
        \A i \in 1..Len(smiles) :
            (/\ IsLower(smiles[i])
             /\ ~(i > 1 /\ smiles[i - 1] \in {CodeOf("C"), CodeOf("B")}))
            => /\ ~Covered(i)
               /\ parseElementsFromSmiles(RemoveAt(smiles, i)) = tokens

\* C6 amended: a lowercase letter that does not immediately follow an
\* uppercase letter is outside every token, and the tokens are those of the
\* input without it; a lowercase letter immediately after an uppercase
\* letter is the second letter of that letter's token.
C6_LowercaseNotAfterUppercaseIgnored ==
    tpc = "done" =>
        \A i \in 1..Len(smiles) :
            IsLower(smiles[i]) =>
                IF i > 1 /\ IsUpper(smiles[i - 1])
                THEN \E k \in 1..Len(tokens) :
                        tstarts[k] = i - 1 /\ tokens[k] = SubSeq(smiles, i - 1, i)
                ELSE /\ ~Covered(i)
                     /\ parseElementsFromSmiles(RemoveAt(smiles, i)) = tokens

\* C6's case: toluene, whose first aromatic atom joins the methyl carbon's
\* token and whose other aromatic atoms are dropped.
C6_Witness ==
    /\ tpc = "done"
    /\ smiles = smilesToluene
    /\ tokens = <<Units(<<"C", "c">>)>>

(***************************************************************************)
(* Generator claims                                                        *)
(*                                                                         *)
(* The unsigned reference: a 32-bit word is the set of the positions       *)
(* 0..31 of its one bits, and every operation is taken modulo 2^32.        *)
(***************************************************************************)

WordBits == 0..31

\* The word with the hexadecimal digits ds, most significant first.
WordOfHex(ds) ==
    {b \in WordBits : (ds[8 - (b \div 4)] \div (2 ^ (b % 4))) % 2 = 1}

\* The word of a non-negative integer below 2^31.
WordOfNat(n) == {b \in 0..30 : (n \div (2 ^ b)) % 2 = 1}

\* The word of a Number read as unsigned.
WordOfNumber(n) ==
    LET u == <<n[1] % (2 ^ 16), n[2]>>
    IN  {b \in WordBits :
            IF b < 16 THEN (u[2] \div (2 ^ b)) % 2 = 1
            ELSE (u[1] \div (2 ^ (b - 16))) % 2 = 1}

WordXor(a, b) == (a \ b) \cup (b \ a)

\* (a << k) mod 2^32 and the logical a >> k
WordShl(a, k) == {b + k : b \in a} \cap WordBits

WordShr(a, k) == {b - k : b \in a} \cap WordBits

\* Adding a and b carries into bit i when some lower bit is one in both and
\* every bit between that one and i is one in at least one of them.
CarryInto(a, b, i) ==
    \E j \in 0..(i - 1) :
        /\ j \in a /\ j \in b
        /\ \A k \in (j + 1)..(i - 1) : k \in a \/ k \in b

\* (a + b) mod 2^32
WordAdd(a, b) ==
    {i \in WordBits : (i \in a) # ((i \in b) # CarryInto(a, b, i))}

\* (a * m) mod 2^32 for an integer 0 <= m < 2^31: the copies of a shifted to
\* the one bits of m, added up from the lowest
RECURSIVE WordMulOver(_, _)
WordMulOver(a, ones) ==
    IF ones = {} THEN {}
    ELSE LET k == CHOOSE x \in ones : \A y \in ones : x <= y
         IN  WordAdd(WordShl(a, k), WordMulOver(a, ones \ {k}))

WordMul(a, m) == WordMulOver(a, WordOfNat(m))

\* The byte j (0 the lowest) of a word, as an integer.
ByteOf(a, j) ==
    CHOOSE n \in 0..255 :
        \A b \in 0..7 : ((8 * j) + b \in a) <=> ((n \div (2 ^ b)) % 2 = 1)

\* a mod m for a positive integer m below 2^22
WordMod(a, m) ==
    LET top == (ByteOf(a, 3) * 256) + ByteOf(a, 2)
        mid == ((top % m) * 256) + ByteOf(a, 1)
    IN  (((mid % m) * 256) + ByteOf(a, 0)) % m

\* h := ((h XOR codeUnit) * 16777619) mod 2^32 over the seed, from 0x811c9dc5
RECURSIVE RefFold(_, _)
RefFold(seed, n) ==
    IF n = 0 THEN WordOfHex(<<8, 1, 1, 12, 9, 13, 12, 5>>)
    ELSE WordMul(WordXor(RefFold(seed, n - 1), WordOfNat(seed[n])), 16777619)

\* x ^= (x << 13) mod 2^32; x ^= x >> 17 (logical); x ^= (x << 5) mod 2^32
RefStep(x) ==
    LET x1 == WordXor(x, WordShl(x, 13))
        x2 == WordXor(x1, WordShr(x1, 17))
    IN  WordXor(x2, WordShl(x2, 5))

\* The reference state of a generator of this seed after n draws.
RECURSIVE RefStateAfter(_, _)
RefStateAfter(seed, n) ==
    IF n = 0 THEN RefFold(seed, Len(seed))
    ELSE RefStep(RefStateAfter(seed, n - 1))

\* The reference, tabulated for the seeds and draw counts of the model.
RefTable ==
    [seed \in PrngSeeds |-> [n \in 0..MaxDraws |-> RefStateAfter(seed, n)]]

IsPrefix(a, b) == Len(a) <= Len(b) /\ SubSeq(b, 1, Len(a)) = a

\* C7: generators of the same seed return the same sequence, whatever the
\* order in which they and the other generators were called: of two such
\* generators the draws of one are a prefix of the draws of the other, and
\* after equally many draws their states are equal.
C7_SameSeedSameDraws ==
    \A g1, g2 \in 1..Len(gens) :
        gens[g1].seed = gens[g2].seed =>
            /\ IsPrefix(gens[g1].draws, gens[g2].draws)
                   \/ IsPrefix(gens[g2].draws, gens[g1].draws)
            /\ Len(gens[g1].draws) = Len(gens[g2].draws) => gens[g1].h = gens[g2].h

\* C7's case: two generators of one seed have drawn, one further than the
\* other, with draws of a generator of another seed in between.
C7_Witness ==
    /\ Len(gens) = 3
    /\ gens[1].seed = gens[3].seed
    /\ gens[2].seed # gens[1].seed
    /\ Len(gens[1].draws) = 1
    /\ Len(gens[2].draws) >= 1
    /\ Len(gens[3].draws) >= 2

\* C8: the state the signed operators leave in h, read as unsigned, is the
\* reference state for the seed and the number of draws, and every draw is
\* (x mod 1000000) / 1000000 for the reference state x it was taken from.
C8_MatchesUnsignedReference ==
    \A g \in 1..Len(gens) :
        LET ref == RefTable[gens[g].seed]
        IN  /\ WordOfNumber(gens[g].h) = ref[Len(gens[g].draws)]
            /\ \A k \in 1..Len(gens[g].draws) :
                gens[g].draws[k] = [num |-> WordMod(ref[k], 1000000), den |-> 1000000]

\* C8's case: draws were taken from a seeded state whose sign bit was set,
\* so that the signed and the unsigned readings of h differ.
C8_Witness ==
    \E g \in 1..Len(gens) :
        /\ gens[g].seed # EmptyString
        /\ SeedState(gens[g].seed)[1] < 0
        /\ Len(gens[g].draws) >= 2

\* C9: every draw is k / 1000000 with k an integer, 0 <= k <= 999999.
C9_DrawsInUnitInterval ==
    \A g \in 1..Len(gens) :
        \A k \in 1..Len(gens[g].draws) :
            /\ gens[g].draws[k].den = 1000000
            /\ gens[g].draws[k].num \in 0..999999

\* C9's case: a draw returned while the state's sign bit is set.
C9_Witness ==
    \E g \in 1..Len(gens) :
        /\ Len(gens[g].draws) >= 1
        /\ gens[g].h[1] < 0

(***************************************************************************)
(* Score claims                                                            *)
(***************************************************************************)

\* C10: the score returned for any seed and salt is an integer from 5 to 95.
C10_ScoreInRange ==
    spc = "done" => score \in 5..95

\* C10's case: a score derived from a hash whose sign bit is set.
C10_Witness ==
    /\ spc = "done"
    /\ scoreSeed \in PanelSeeds
    /\ scoreSalt \in PanelSalts
    /\ FoldFrom(scoreSeed \o Units(<<"|">>) \o scoreSalt, 1, FnvOffsetBasis)[1] < 0

\* The string seed + "|" + salt of the current call.
ScoreInput == scoreSeed \o Units(<<"|">>) \o scoreSalt

\* C11: the score is 5 + (h mod 91) for h the unsigned 32-bit value of the
\* fold from 0x811c9dc5 over seed + "|" + salt, which is the state a
\* generator seeded with that string starts from, before any draw; and the
\* copy in SafetyApplicationsPanel returns the same score.
C11_ScoreIsFreshFoldInBothCopies ==
    LET ref == RefFold(ScoreInput, Len(ScoreInput))
    IN  /\ spc = "done" =>
            /\ score = 5 + WordMod(ref, 91)
            /\ WordOfNumber(seededRandom(ScoreInput).h) = ref
        /\ ppc = "done" => panelScore = 5 + WordMod(ref, 91)
        /\ (spc = "done" /\ ppc = "done") => panelScore = score

\* C11's case: both copies were called on a product list and a panel salt
\* whose fold has its sign bit set.
C11_Witness ==
    /\ spc = "done"
    /\ ppc = "done"
    /\ scoreSeed \in PanelSeeds
    /\ scoreSalt \in PanelSalts
    /\ seededRandom(ScoreInput).h[1] < 0

(***************************************************************************)
(* Estimator claims                                                        *)
(***************************************************************************)

\* The claimed formula in exact arithmetic, every factor as an integer
\* number of its unit: f in twentieths, the temperature factor in
\* three-hundredths, the pressure factor in two-hundredths.
ClaimedMultiplier20(solventKey) ==
    IF solventKey \in DOMAIN solventFactor THEN solventFactor[solventKey] \div 5 ELSE 20

ClaimedMinutes(args) ==
    LET base == 30 + (20 * args.reactantsCount) + (10 * args.solutesCount)
        t == 480 - (args.temperatureK - 273)
        p == 240 - (args.pressureTenths - 10)
        num == base * ClaimedMultiplier20(args.solventKey)
                    * (IF t > 120 THEN t ELSE 120) * (IF p > 140 THEN p ELSE 140)
        den == 20 * 300 * 200
        rounded == ((2 * num) + den) \div (2 * den)
    IN  IF rounded > 5 THEN rounded ELSE 5

\* C12: the estimate equals max(5, round((30 + 20r + 10s) * f(solvent) *
\* max(0.4, 1.6 - (T - 273)/300) * max(0.7, 1.2 - (P - 1) * 0.05))), with
\* f(k) = 1.0 for every key that is not in the table, and
\* estimate(1, 0, "water", 298, 1) = 91.
C12_EstimateEqualsFormula ==
    epc = "done" =>
        /\ minutes = Num(ClaimedMinutes(estArgs))
        /\ estArgs = [reactantsCount |-> 1, solutesCount |-> 0, solventKey |-> "water",
                      temperatureK |-> 298, pressureTenths |-> 10]
               => minutes = Num(91)

\* C13: whatever the counts, the solvent key, the temperature and the
\* pressure, the estimate is a positive integer, and at least 5.
C13_PositiveIntegerAtLeastFive ==
    epc = "done" => (~minutes.nan /\ minutes.val >= 5)

\* C14 as claimed: at temperatureK = 573 the temperature factor is its
\* floor value 0.4.
C14_ClampAtSliderMaximum ==
    (epc = "done" /\ estArgs.temperatureK = 573) => tempFactor = Literal(4, 10)

\* C14 amended: at temperatureK = 573 the temperature factor is 0.6 (one
\* unit in the last place above it), not the floor; it is above 0.4 for
\* every temperature of the slider, and is the floor value 0.4 exactly
\* when temperatureK >= 634.
C14_ClampOnlyBeyondSlider ==
    epc = "done" =>
        /\ estArgs.temperatureK = 573 =>
               (~FLess(tempFactor, Literal(6, 10)) /\ FLess(tempFactor, Literal(6001, 10000)))
        /\ estArgs.temperatureK \in 273..573 => FLess(Literal(4, 10), tempFactor)
        /\ (tempFactor = Literal(4, 10)) <=> (estArgs.temperatureK >= 634)

\* C14's case: an estimate at the slider's maximum temperature.
C14_Witness ==
    /\ epc = "done"
    /\ estArgs.temperatureK = 573
    /\ tempFactor # Literal(4, 10)

\* C15 as claimed: at pressureAtm = 10 the pressure factor is its floor
\* value 0.7.
C15_ClampAtSliderMaximum ==
    (epc = "done" /\ estArgs.pressureTenths = 100) => pressureFactor = Literal(7, 10)

\* C15 amended: at pressureAtm = 10 the pressure factor is 0.75, not the
\* floor; it is above 0.7 for every pressure of the slider, and is the
\* floor value 0.7 exactly when pressureAtm >= 11.
C15_ClampOnlyBeyondSlider ==
    epc = "done" =>
        /\ estArgs.pressureTenths = 100 => pressureFactor = Literal(75, 100)
        /\ estArgs.pressureTenths \in 1..100 => FLess(Literal(7, 10), pressureFactor)
        /\ (pressureFactor = Literal(7, 10)) <=> (estArgs.pressureTenths >= 110)

\* C15's case: an estimate at the slider's maximum pressure.
C15_Witness ==
    /\ epc = "done"
    /\ estArgs.pressureTenths = 100
    /\ pressureFactor # Literal(7, 10)

(***************************************************************************)
(* Sanitizer claims                                                        *)
(***************************************************************************)

\* The characters the claim lists: letters, digits and @ + - [ ] ( ) = # \ / . * :
ListedAllowed(u) ==
    \/ (u >= 65 /\ u <= 90) \/ (u >= 97 /\ u <= 122) \/ (u >= 48 /\ u <= 57)
    \/ u \in {CodeOf("@"), CodeOf("+"), CodeOf("-"), CodeOf("["), CodeOf("]"),
              CodeOf("("), CodeOf(")"), CodeOf("="), CodeOf("#"), 92, CodeOf("/"),
              CodeOf("."), CodeOf("*"), CodeOf(":")}

\* The number of listed characters of s at or before index i.
AllowedUpTo(s, i) == Cardinality({j \in 1..i : ListedAllowed(s[j])})

\* C19: the result holds, in their original order, the allowed characters
\* of the input up to the 200th and nothing else: the k-th allowed character
\* of the input is the result's k-th unit for k <= 200, and the result has
\* min(200, number of allowed characters) units. So its length is at most
\* 200, all its units are allowed, and sanitizing it again returns it.
C19_SanitizedIsAllowedPrefix ==
    zpc = "done" =>
        LET total == AllowedUpTo(rawInput, Len(rawInput))
        IN  /\ Len(sanitized) = (IF total < 200 THEN total ELSE 200)
            /\ \A i \in 1..Len(rawInput) :
                   (ListedAllowed(rawInput[i]) /\ AllowedUpTo(rawInput, i) <= 200)
                       => sanitized[AllowedUpTo(rawInput, i)] = rawInput[i]
            /\ Len(sanitized) <= 200
            /\ \A k \in 1..Len(sanitized) : ListedAllowed(sanitized[k])
            /\ sanitizeSmiles(sanitized) = sanitized

\* C19's case: a text with more than 200 allowed characters, and others
\* among its first 200, was cut to its first 200 allowed characters.
C19_Witness ==
    /\ zpc = "done"
    /\ Len(rawInput) > 200
    /\ \E i \in 1..200 : ~ListedAllowed(rawInput[i])
    /\ Len(sanitized) = 200

(***************************************************************************)
(* Claims about the simulator component                                    *)
(***************************************************************************)

\* The number a run of decimal digits denotes.
RECURSIVE DecimalValue(_)
DecimalValue(ds) ==
    IF ds = <<>> THEN 0
    ELSE 10 * DecimalValue(SubSeq(ds, 1, Len(ds) - 1)) + (ds[Len(ds)] - 48)

\* A decimal numeral as a number is printed: digits, no leading zero but "0".
IsNumeral(ds) ==
    /\ Len(ds) >= 1
    /\ \A i \in 1..Len(ds) : IsDigit(ds[i])
    /\ Len(ds) > 1 => ds[1] # 48

\* C16: the text shown for an estimate of m minutes is "{h}h {r}m" with
\* h >= 1, 0 <= r <= 59 and 60h + r = m when m >= 60, and "{m} min" when
\* m < 60, which happens only for 5 <= m <= 59.
C16_DurationTextForm ==
    LET m == estimatedMinutes
        shown == estimateText
        lead == DigitRun(shown, 1)
        first == SubSeq(shown, 1, lead)
        rest == SubSeq(shown, lead + 1, Len(shown))
        mid == DigitRun(rest, 3)
        second == SubSeq(rest, 3, 2 + mid)
    IN  /\ ~m.nan
        /\ IsNumeral(first)
        /\ IF m.val >= 60
           THEN /\ Len(rest) = mid + 3
                /\ rest[1] = CodeOf("h") /\ rest[2] = CodeOf(" ")
                /\ rest[Len(rest)] = CodeOf("m")
                /\ IsNumeral(second)
                /\ DecimalValue(first) >= 1
                /\ DecimalValue(second) \in 0..59
                /\ 60 * DecimalValue(first) + DecimalValue(second) = m.val
           ELSE /\ rest = Units(<<" ", "m", "i", "n">>)
                /\ DecimalValue(first) = m.val
                /\ m.val \in 5..59

\* C16's cases: an estimate of exactly sixty minutes is on show, in the
\* hour form.
C16_Witness ==
    /\ estimatedMinutes = Num(60)
    /\ estimateText = Units(<<"1", "h", " ", "0", "m">>)

\* C20: every string held in the reactant and solute fields has at most 200
\* units, all of them in the allowed character set.
C20_FieldsAreSanitized ==
    \A list \in {reactants, solutes} :
        \A i \in 1..Len(list) :
            /\ Len(list[i]) <= 200
            /\ \A k \in 1..Len(list[i]) : ListedAllowed(list[i][k])

(***************************************************************************)
(* Claims about repeated calls                                             *)
(***************************************************************************)

PureFunctions ==
    {"parseElementsFromSmiles", "computeFormula", "scoreFromSeed",
     "estimateReactionTimeMinutes"}

\* Call j repeats call i: the same pure function with the same arguments.
Repeats(i, j) ==
    /\ i < j
    /\ calls[i].fn \in PureFunctions
    /\ calls[j].fn = calls[i].fn
    /\ calls[j].args = calls[i].args

IsString(v) == \A i \in 1..Len(v) : v[i] \in 0..65535

\* C18: for every text, each of the four calls that has ended has returned,
\* and returned a value of its kind: an array of strings, a string, a number
\* in [0, 1), an integer score; none has thrown. A text without any token
\* is tokenized to the empty array and formatted to the empty string.
C18_EveryCallReturns ==
    /\ parsed.state # "thrown" /\ formatted.state # "thrown"
    /\ generator.state # "thrown" /\ drawn.state # "thrown" /\ scored.state # "thrown"
    /\ parsed.state = "returned" =>
           /\ parsed.value # Null
           /\ \A k \in 1..Len(parsed.value) : IsString(parsed.value[k])
           /\ (\A i \in 1..Len(text) : ~IsUpper(text[i])) => parsed.value = <<>>
    /\ formatted.state = "returned" =>
           /\ IsString(formatted.value)
           /\ parsed.value = <<>> => formatted.value = EmptyString
    /\ drawn.state = "returned" =>
           drawn.value.num \in 0..(drawn.value.den - 1)
    /\ scored.state = "returned" => scored.value \in 5..95

\* C18's case: a text of more than 200 units, some outside the sanitizer's
\* set and none a token, went through all four calls.
C18_Witness ==
    /\ Len(text) > 200
    /\ \E i \in 1..Len(text) : ~ListedAllowed(text[i])
    /\ \A i \in 1..Len(text) : ~IsUpper(text[i])
    /\ parsed.state = "returned" /\ formatted.state = "returned"
    /\ drawn.state = "returned" /\ scored.state = "returned"

(***************************************************************************)
(* Reading a URL back: its path, its query parameters, its escapes.        *)
(***************************************************************************)

\* The first index of unit u in s, or 0.
IndexOf(s, u) ==
    IF \E i \in 1..Len(s) : s[i] = u
    THEN CHOOSE i \in 1..Len(s) : s[i] = u /\ \A j \in 1..(i - 1) : s[j] # u
    ELSE 0

\* The pieces of s between occurrences of unit u.
RECURSIVE SplitOn(_, _)
SplitOn(s, u) ==
    IF IndexOf(s, u) = 0 THEN <<s>>
    ELSE <<SubSeq(s, 1, IndexOf(s, u) - 1)>>
             \o SplitOn(SubSeq(s, IndexOf(s, u) + 1, Len(s)), u)

\* The bytes an escaped string stands for: %XX is the byte XX, and in a query
\* (plus = TRUE) a + is a space.
RECURSIVE Unescaped(_, _)
Unescaped(s, plus) ==
    LET val(h) == IF IsDigit(h) THEN h - 48 ELSE h - 55
    IN  IF s = <<>> THEN <<>>
        ELSE IF s[1] = 37 /\ Len(s) >= 3
        THEN <<16 * val(s[2]) + val(s[3])>> \o Unescaped(SubSeq(s, 4, Len(s)), plus)
        ELSE IF s[1] = 43 /\ plus THEN <<32>> \o Unescaped(Tail(s), plus)
        ELSE <<s[1]>> \o Unescaped(Tail(s), plus)

\* The UTF-8 bytes of a string.
Utf8Of(str) == JoinStrings([i \in 1..Len(str) |-> Utf8Bytes(str[i])])

\* The returned URL is the PubChem path for the arguments, and its query
\* holds exactly the parameters `expected`, in that order.
UrlHasParameters(expected) ==
    LET mark == IndexOf(imageUrl, 63)
        path == IF mark = 0 THEN imageUrl ELSE SubSeq(imageUrl, 1, mark - 1)
        query == IF mark = 0 THEN EmptyString ELSE SubSeq(imageUrl, mark + 1, Len(imageUrl))
        front == Units(<<"h", "t", "t", "p", "s", ":", "/", "/", "p", "u", "b", "c", "h",
                         "e", "m", ".", "n", "c", "b", "i", ".", "n", "l", "m", ".", "n",
                         "i", "h", ".", "g", "o", "v", "/", "r", "e", "s", "t", "/", "p",
                         "u", "g", "/", "c", "o", "m", "p", "o", "u", "n", "d", "/">>)
                     \o imageArgs.namespace \o <<47>>
        back == Units(<<"/", "P", "N", "G">>)
        segment == SubSeq(path, Len(front) + 1, Len(path) - Len(back))
        pairs == SplitOn(query, 38)
    IN  /\ Len(path) >= Len(front) + Len(back)
        /\ SubSeq(path, 1, Len(front)) = front
        /\ SubSeq(path, Len(path) - Len(back) + 1, Len(path)) = back
        /\ \A i \in 1..Len(segment) : segment[i] \notin {47, 63, 35, 32}
        /\ \A i \in 1..Len(segment) : segment[i] < 128
        /\ Unescaped(segment, FALSE) = Utf8Of(imageArgs.identifier)
        /\ (mark = 0) <=> (expected = <<>>)
        /\ mark # 0 =>
               /\ Len(pairs) = Len(expected)
               /\ \A i \in 1..Len(pairs) :
                      LET eq == IndexOf(pairs[i], 61)
                      IN  /\ eq # 0
                          /\ SubSeq(pairs[i], 1, eq - 1) = expected[i].name
                          /\ Unescaped(SubSeq(pairs[i], eq + 1, Len(pairs[i])), TRUE)
                                 = Utf8Of(expected[i].value)

\* record_type (if withType) before image_size (if withSize), with the
\* arguments as values.
ParametersOf(withType, withSize) ==
    (IF withType
     THEN <<[name |-> Units(<<"r", "e", "c", "o", "r", "d", "_", "t", "y", "p", "e">>),
             value |-> imageArgs.recordType.value]>>
     ELSE <<>>)
    \o (IF withSize
        THEN <<[name |-> Units(<<"i", "m", "a", "g", "e", "_", "s", "i", "z", "e">>),
                value |-> imageArgs.imageSize.value]>>
        ELSE <<>>)

\* C21 as stated: the URL built for (identifier, namespace, recordType?,
\* imageSize?) is the PubChem path with the percent-encoded identifier,
\* followed by a query string exactly when an optional parameter is supplied,
\* holding record_type (when supplied) before image_size (when supplied) and
\* nothing else.
C21_QueryHasEverySuppliedParameter ==
    ipc = "done" => UrlHasParameters(ParametersOf(imageArgs.recordType.given, imageArgs.imageSize.given))

\* C21 amended: the query string holds the optional parameters that are
\* supplied and not the empty string, record_type before image_size, and is
\* absent (no '?') when there is none; an imageSize of "" is left out.
C21_QueryHasEveryNonEmptyParameter ==
    ipc = "done" =>
        UrlHasParameters(ParametersOf(
            imageArgs.recordType.given /\ imageArgs.recordType.value # EmptyString,
            imageArgs.imageSize.given /\ imageArgs.imageSize.value # EmptyString))

\* The fourth test's identifier with both parameters: a space is escaped.
C21_Witness ==
    /\ ipc = "done"
    /\ imageArgs.identifier = Units(<<"b", "e", "n", "z", "e", "n", "e", " ", "r", "i", "n", "g">>)
    /\ imageArgs.recordType.given /\ imageArgs.imageSize.given
    /\ imageUrl =
           Units(<<"h", "t", "t", "p", "s", ":", "/", "/", "p", "u", "b", "c", "h", "e", "m",
                   ".", "n", "c", "b", "i", ".", "n", "l", "m", ".", "n", "i", "h", ".", "g",
                   "o", "v", "/", "r", "e", "s", "t", "/", "p", "u", "g", "/", "c", "o", "m",
                   "p", "o", "u", "n", "d", "/", "n", "a", "m", "e", "/", "b", "e", "n", "z",
                   "e", "n", "e", "%", "2", "0", "r", "i", "n", "g", "/", "P", "N", "G", "?",
                   "r", "e", "c", "o", "r", "d", "_", "t", "y", "p", "e", "=", "2", "d", "&",
                   "i", "m", "a", "g", "e", "_", "s", "i", "z", "e", "=", "3", "0", "0", "x",
                   "3", "0", "0">>)

\* sub occurs in s.
Contains(s, sub) ==
    \E i \in 0..(Len(s) - Len(sub)) : SubSeq(s, i + 1, i + Len(sub)) = sub

\* C22: whenever FASTAPI_CHEM_BASE_URL is not set in the environment at the
\* time of the call (also when it was removed after the module was loaded),
\* the call rejects with an error whose message contains
\* "FASTAPI_CHEM_BASE_URL is not set" and no HTTP request is issued.
C22_RejectsWhenUnsetAtCallTime ==
    \A i \in 1..Len(apiCalls) :
        ~apiCalls[i].env.FASTAPI_CHEM_BASE_URL.given =>
            /\ apiCalls[i].requests = <<>>
            /\ apiCalls[i].outcome.state = "thrown"
            /\ Contains(apiCalls[i].outcome.error,
                        Units(<<"F", "A", "S", "T", "A", "P", "I", "_", "C", "H", "E", "M", "_",
                                "B", "A", "S", "E", "_", "U", "R", "L", " ", "i", "s", " ",
                                "n", "o", "t", " ", "s", "e", "t">>))

\* C23: whenever FASTAPI_CHEM_BASE_URL is set in the environment at the time
\* of the call, the call issues exactly one POST to that base URL + endpoint
\* with Content-Type application/json and the JSON-serialised data as body,
\* with the header Authorization: "Bearer <key>" exactly when
\* FASTAPI_CHEM_API_KEY is set at that time, and on an ok response (with a
\* JSON body) returns the parsed body.
C23_PostsWhenSetAtCallTime ==
    \A i \in 1..Len(apiCalls) :
        LET call == apiCalls[i]
            base == call.env.FASTAPI_CHEM_BASE_URL
            key == call.env.FASTAPI_CHEM_API_KEY
            bearer == Units(<<"B", "e", "a", "r", "e", "r", " ">>) \o key.value
        IN  base.given =>
                /\ Len(call.requests) = 1
                /\ call.requests[1].url = base.value \o call.endpoint
                /\ call.requests[1].method = "POST"
                /\ call.requests[1].body =
                       <<123, 34>> \o Units(<<"s", "t", "r", "u", "c", "t", "u", "r", "e">>)
                           \o <<34, 58>> \o JsonString(call.data.structure) \o <<125>>
                /\ \E h \in 1..Len(call.requests[1].headers) :
                       call.requests[1].headers[h] =
                           [name |-> "Content-Type",
                            value |-> Units(<<"a", "p", "p", "l", "i", "c", "a", "t", "i", "o",
                                              "n", "/", "j", "s", "o", "n">>)]
                /\ key.given <=>
                       \E h \in 1..Len(call.requests[1].headers) :
                           call.requests[1].headers[h].name = "Authorization"
                /\ \A h \in 1..Len(call.requests[1].headers) :
                       call.requests[1].headers[h].name = "Authorization" =>
                           call.requests[1].headers[h].value = bearer
                /\ (call.response # <<>> /\ call.response[1].ok
                        /\ call.response[1].json # "unparsable") =>
                       call.outcome = Returned(call.response[1].json)

\* The rows processAndSaveStructure has stored when exactly the calls made
\* through it that returned a value stored theirs, in order.
RowsOfReturned(made) ==
    LET saving == SelectSeq(made, LAMBDA call : call.via = "processAndSaveStructure"
                                                  /\ call.outcome.state = "returned")
    IN  [i \in 1..Len(saving) |->
            [type |-> "structure_validation", input |-> saving[i].data.structure,
             result |-> saving[i].outcome.value]]

\* C24: when the HTTP response is not ok, callFastApi rejects with the error
\* "FastAPI error <status> on <endpoint>: <response body text>" (empty text
\* if the body cannot be read) and returns no parsed body; nothing is stored
\* for such a call: the stored rows are those of the calls that returned.
C24_NotOkRejectsAndStoresNothing ==
    /\ stored = RowsOfReturned(apiCalls)
    /\ \A i \in 1..Len(apiCalls) :
           LET call == apiCalls[i]
           IN  (call.response # <<>> /\ ~call.response[1].ok) =>
                   /\ call.outcome.state = "thrown"
                   /\ call.outcome.error =
                          Units(<<"F", "a", "s", "t", "A", "P", "I", " ", "e", "r", "r", "o", "r", " ">>)
                              \o NumberToString(call.response[1].status)
                              \o Units(<<" ", "o", "n", " ">>) \o call.endpoint \o <<58, 32>>
                              \o (IF call.response[1].text.given
                                  THEN call.response[1].text.value ELSE EmptyString)

\* processAndSaveStructure gets a 500 with the body "boom" (the test's
\* message) and stores nothing.
C24_Witness ==
    /\ Len(apiCalls) = 1
    /\ stored = <<>>
    /\ apiCalls[1].via = "processAndSaveStructure"
    /\ apiCalls[1].response # <<>>
    /\ apiCalls[1].response[1].status = 500
    /\ apiCalls[1].outcome.state = "thrown"
    /\ apiCalls[1].outcome.error =
           Units(<<"F", "a", "s", "t", "A", "P", "I", " ", "e", "r", "r", "o", "r", " ", "5",
                   "0", "0", " ", "o", "n", " ", "/", "v", "a", "l", "i", "d", "a", "t", "e",
                   ":", " ", "b", "o", "o", "m">>)

\* The values of `among` above x, or x itself when it is the largest: the
\* next larger one first.
NextAbove(among, x) ==
    IF \E y \in among : y > x
    THEN CHOOSE y \in among : y > x /\ \A z \in among : z > x => y <= z
    ELSE x

\* The estimate for arguments given as the harness gives them.
EstimateFor(args) ==
    estimateReactionTimeMinutes(args.reactantsCount, args.solutesCount, args.solventKey,
                                TemperatureOf(args), PressureOf(args))

\* a <= b as numbers (false when either is NaN).
AtMost(a, b) == ~a.nan /\ ~b.nan /\ a.val <= b.val

\* C25: for fixed counts and solvent the estimate is non-increasing in
\* temperatureK and in pressureAtm, and for fixed conditions non-decreasing
\* in reactantsCount and in solutesCount: a step to the next larger
\* temperature or pressure does not raise it, a step to the next larger
\* count does not lower it.
C25_MonotoneInEachArgument ==
    epc = "done" =>
        /\ AtMost(EstimateFor([estArgs EXCEPT
                      !.temperatureK = NextAbove(Temperatures, estArgs.temperatureK)]), minutes)
        /\ AtMost(EstimateFor([estArgs EXCEPT
                      !.pressureTenths = NextAbove(PressureTenths, estArgs.pressureTenths)]), minutes)
        /\ AtMost(minutes, EstimateFor([estArgs EXCEPT
                      !.reactantsCount = NextAbove(0..MaxCount, estArgs.reactantsCount)]))
        /\ AtMost(minutes, EstimateFor([estArgs EXCEPT
                      !.solutesCount = NextAbove(0..MaxCount, estArgs.solutesCount)]))

\* The table a request reads or writes, as it is now.
TableOf(fn) ==
    IF fn \in {"saveReaction", "getUserReactions", "getReaction"}
    THEN reactionDocs ELSE moleculeDocs

\* C26: after any sequence of saves by any users, a read by user U returns
\* only documents whose userId is U; a document is stamped with its saver's
\* id; asking for another user's document fails with the same "not found"
\* error as asking for one that does not exist; without a signed-in user a
\* single-document read or a save fails with "Authentication required" and
\* inserts nothing, and a list read returns the empty list.
C26_ReadsReturnOnlyOwnRecords ==
    LET before == request.before
        signedIn == request.caller # "anonymous"
        single == request.fn \in {"getReaction", "getMolecule"}
        list == request.fn \in {"getUserReactions", "getUserMolecules"}
        save == request.fn \in {"saveReaction", "saveMolecule"}
        notFound == IF request.fn = "getReaction" THEN "Reaction not found"
                    ELSE "Molecule not found"
    IN  /\ \A i \in 1..Len(reactionDocs) : reactionDocs[i].userId \in {"alice", "bob"}
        /\ \A i \in 1..Len(moleculeDocs) : moleculeDocs[i].userId \in {"alice", "bob"}
        /\ (single /\ request.outcome.state = "returned") =>
               /\ signedIn
               /\ request.outcome.value.userId = request.caller
               /\ request.outcome.value = before[request.id]
        /\ (single /\ signedIn /\ request.id \in 1..Len(before)
                /\ before[request.id].userId = request.caller) =>
               request.outcome.state = "returned"
        /\ (single /\ signedIn /\ request.outcome.state = "thrown") =>
               request.outcome.error = notFound
        /\ ((single \/ save) /\ ~signedIn) =>
               /\ request.outcome = Thrown("Authentication required")
               /\ TableOf(request.fn) = before
        /\ list =>
               /\ request.outcome.state = "returned"
               /\ \A i \in 1..Len(request.outcome.value) :
                      /\ request.outcome.value[i].userId = request.caller
                      /\ \E j \in 1..Len(before) : before[j] = request.outcome.value[i]
               /\ ~signedIn => request.outcome.value = <<>>
               /\ signedIn =>
                      \A j \in 1..Len(before) :
                          before[j].userId = request.caller =>
                              \E i \in 1..Len(request.outcome.value) :
                                  request.outcome.value[i] = before[j]
        /\ (save /\ signedIn) =>
               /\ Len(TableOf(request.fn)) = Len(before) + 1
               /\ SubSeq(TableOf(request.fn), 1, Len(before)) = before
               /\ TableOf(request.fn)[Len(before) + 1].userId = request.caller

\* bob asks for alice's reaction, which exists, and is told "not found".
C26_Witness ==
    /\ request.fn = "getReaction"
    /\ request.caller = "bob"
    /\ request.id \in 1..Len(reactionDocs)
    /\ reactionDocs[request.id].userId = "alice"
    /\ \E i \in 1..Len(reactionDocs) : reactionDocs[i].userId = "bob"
    /\ request.outcome = Thrown("Reaction not found")

\* A list computed from a snapshot's list: as long, in the same order, each
\* entry the snapshot's entry or, for an entry that is not blank, a canonical
\* form a service answered with.
ComputedFrom(list, snap) ==
    /\ Len(list) = Len(snap)
    /\ \A i \in 1..Len(snap) :
           \/ list[i] = snap[i]
           \/ Trim(snap[i]) # EmptyString /\ list[i] \in ServiceAnswers

\* C29: the step that ends a Validate via PubChem or Cheminfo Normalize
\* request either replaces both lists with lists computed from the snapshot
\* taken at the click (the snapshot's length and order, each entry the
\* snapshot's entry or its canonical form), whatever was edited, added or
\* removed meanwhile, or, when a request failed, changes neither list.
C29_ListsReplacedFromSnapshot ==
    [][\A req \in BagToSet(inflight) :
           inflight' = inflight (-) SetToBag({req}) =>
               /\ \/ /\ ComputedFrom(reactants', req.reactants)
                     /\ ComputedFrom(solutes', req.solutes)
                  \/ /\ reactants' = reactants
                     /\ solutes' = solutes
               /\ RequestFails => (reactants' = reactants /\ solutes' = solutes)]_vars

\* A request has replaced a reactant with the service's canonical form, and
\* a field was added while the next request is in flight: its answer will
\* put the shorter list back.
C29_Witness ==
    /\ \E i \in 1..Len(reactants) : reactants[i] \in ServiceAnswers
    /\ \E req \in BagToSet(inflight) :
           /\ Len(req.reactants) < Len(reactants)
           /\ \E i \in 1..Len(req.reactants) : req.reactants[i] \in ServiceAnswers

\* C27: while isSimulating is true, products and byproducts are empty, so
\* Save is disabled and the safety panel is hidden; Run is disabled then, at
\* most one simulation awaits its timer, one does exactly while isSimulating
\* is true, and the render it was started in had a reactant that is not
\* blank.
C27_OutputsResetWhileSimulating ==
    /\ isSimulating =>
           /\ products = <<>>
           /\ byproducts = <<>>
           /\ ~canSave
           /\ ~SafetyPanelShown
           /\ ~canRun
    /\ BagCardinality(simulations) <= 1
    /\ isSimulating <=> simulations # EmptyBag
    /\ \A run \in BagToSet(simulations) :
           \E i \in 1..Len(run.reactants) : Trim(run.reactants[i]) # EmptyString

\* A simulation is in flight and every reactant field has been blanked since
\* the click: Run could not be clicked now, and nothing is shown.
C27_Witness ==
    /\ isSimulating
    /\ simulations # EmptyBag
    /\ ~hasAtLeastOneReactant
    /\ products = <<>>
    /\ ~canSave

\* C28: the step in which a simulation's delay elapses sets products and
\* byproducts to those derived from the reactants, solutes and solvent of
\* the render in which Run was clicked, whatever the fields and the solvent
\* are by then.
C28_ResultFromSnapshotAtClick ==
    [][\A run \in BagToSet(simulations) :
           simulations' = simulations (-) SetToBag({run}) =>
               /\ products' = <<productA(run)>>
               /\ byproducts' = <<productB(run)>>
               /\ reactants' = reactants
               /\ conditions' = conditions]_vars

\* A simulation awaits its timer and the fields have been edited since the
\* click so that both outputs will differ from what the fields shown now
\* would give.
C28_Witness ==
    \E run \in BagToSet(simulations) :
        /\ run.reactants # reactants
        /\ productA(run) # productA(RunSnapshot)
        /\ productB(run) # productB(RunSnapshot)

\* C30: after any sequence of mousedown, mousemove, mouseup and wheel events
\* the zoom target distance is within [4, 24]; it starts at 10 and a wheel
\* event moves it by 0.8, or to the bound it would pass; a mousemove changes
\* the model rotation only while a drag is active, and a drag is active
\* exactly from a mousedown on the canvas to the next mouseup.
C30_ZoomBoundedAndRotationOnlyInDrag ==
    /\ targetDist >= 40
    /\ targetDist <= 240
    /\ handled.type = "none" => targetDist = 100
    /\ handled.type = "wheel" =>
           \/ targetDist = handled.distBefore + 8
           \/ targetDist = handled.distBefore - 8
           \/ targetDist = 240 /\ handled.distBefore + 8 > 240
           \/ targetDist = 40 /\ handled.distBefore - 8 < 40
    /\ handled.type # "wheel" => targetDist = handled.distBefore
    /\ (handled.type = "mousemove" /\ handled.turned) => handled.wasDragging
    /\ isDragging <=> handled.button = "down"

\* After a drag that turned the model and a zoom to the near bound, the
\* pointer moves with no button held and the model does not turn.
C30_Witness ==
    /\ handled.type = "mousemove"
    /\ ~handled.wasDragging
    /\ ~handled.turned
    /\ handled.button = "up"
    /\ groupRotation.y # 0
    /\ targetDist = 40

====
